---- MODULE Spec2Model ----
(***************************************************************************)
(* Model of bindgen_rs.rs: the Rust binding emitter of roc's bindgen.      *)
(*                                                                         *)
(* Text is modelled as a sequence of atoms (STRING tokens); format! and    *)
(* push_str are concatenation (\o), so two texts are equal exactly when    *)
(* their atom sequences are.  Option<String> is the empty sequence for     *)
(* None.  A TypeId is an index into a registry (a sequence of RocTypes),   *)
(* 0 standing for "no payload".                                            *)
(***************************************************************************)
EXTENDS Integers, Sequences, FiniteSets, TLC

VARIABLES
    inputs,     \* emit: types_by_architecture, a sequence of <<architecture, registry index>>
    archIdx,    \* emit: position of the outer loop (line 31)
    idIdx,      \* emit: position of the inner loop over sorted_ids (line 32)
    impls,      \* emit: the Impls map (line 29)
    buf,        \* emit: the returned String, as a sequence of chunks (line 28)
    pc,         \* emit: "adding", "done", "panicked" or "idle"
    diag,       \* emit: the message of the todo!() that unwound the call, empty when none
    storage,    \* emitted nullable-unwrapped value: "none", "null", "readonly" or "rc"
    hasPtr,     \* emitted nullable-unwrapped value: payload_type.has_pointer (line 1198)
    rc,         \* the reference count held by the Storage cell before the payload
    handles,    \* per handle: "unused", "live", "dropped" or "moved" (consumed by into_)
    deallocs,   \* number of calls of roc_dealloc on the allocation
    payloadDrops, \* number of runs of the payload's destructor
    movedOut,   \* number of payload values handed to callers by into_
    rcWrites,   \* number of storage.set calls
    heap,       \* the addresses the constructor, the handles and roc_dealloc work with
    shape,      \* emitted tag union at run time: the union, its architecture and layout
    val,        \* emitted tag union at run time: the memory of one value
    call        \* emitted tag union at run time: the last method called, its arguments and result

emitVars == <<inputs, archIdx, idIdx, impls, buf, pc, diag>>
rcVars == <<storage, hasPtr, rc, handles, deallocs, payloadDrops, movedOut, rcWrites, heap>>
valVars == <<shape, val, call>>
vars == <<inputs, archIdx, idIdx, impls, buf, pc, diag,
          storage, hasPtr, rc, handles, deallocs, payloadDrops, movedOut, rcWrites, heap,
          shape, val, call>>

\* ------------------------------------------------------------------ bounds

\* Longest input list given to emit.
MaxInputs == 2

\* Number of handles (the original and its clones) of one nullable-unwrapped value.
MaxHandles == 3

\* Lowest address roc_alloc returns; it returns one of the AllocSpan
\* addresses from there that has the alignment asked for.
AllocBase == 32

\* ------------------------------------------------------------ constants

INDENT == "    "

VARIANT_DOC_COMMENT ==
    "/// Returns which variant this tag union holds. Note that this never includes a payload!"

Architectures == {"X86_64", "X86_32", "Aarch64", "Aarch32", "Wasm32"}

arch_to_str(architecture) ==
    CASE architecture = "X86_64" -> "x86_64"
      [] architecture = "X86_32" -> "x86"
      [] architecture = "Aarch64" -> "aarch64"
      [] architecture = "Aarch32" -> "arm"
      [] architecture = "Wasm32" -> "wasm32"

\* A plausible slip: every architecture is given the 64-bit capacity.
max_pointer_tagged_variants_wide(architecture) ==
    IF architecture \in Architectures THEN 8 ELSE 4

max_pointer_tagged_variants(architecture) ==
    IF architecture \in {"X86_64", "Aarch64"} THEN 8 ELSE 4

tagged_pointer_bitmask(architecture) ==
    IF architecture \in {"X86_64", "Aarch64"} THEN 7 ELSE 3

\* The digits of n in base 2, most significant first (the body of {:#b}).
RECURSIVE BinDigits(_)
BinDigits(n) ==
    IF n < 2 THEN <<ToString(n)>>
    ELSE BinDigits(n \div 2) \o <<ToString(n % 2)>>

\* format!("{:#b}", n)
FormatBin(n) == <<"0b">> \o BinDigits(n)

\* ------------------------------------------------------ sequence helpers

Range(s) == {s[i] : i \in 1..Len(s)}

\* The index of the first element of s equal to x, 0 when there is none.
IndexOf(s, x) ==
    IF \E i \in 1..Len(s) : s[i] = x
    THEN CHOOSE i \in 1..Len(s) : s[i] = x /\ \A j \in 1..(i - 1) : s[j] # x
    ELSE 0

\* The concatenation of the sequences of ss (by halves, to keep the evaluation shallow).
RECURSIVE Flatten(_)
Flatten(ss) ==
    IF Len(ss) = 0 THEN <<>>
    ELSE IF Len(ss) = 1 THEN ss[1]
    ELSE LET h == Len(ss) \div 2
         IN Flatten(SubSeq(ss, 1, h)) \o Flatten(SubSeq(ss, h + 1, Len(ss)))

\* strs.join(sep) for texts
RECURSIVE Join(_, _)
Join(ss, sep) ==
    IF Len(ss) = 0 THEN <<>>
    ELSE IF Len(ss) = 1 THEN ss[1]
    ELSE LET h == Len(ss) \div 2
         IN Join(SubSeq(ss, 1, h), sep) \o sep \o Join(SubSeq(ss, h + 1, Len(ss)), sep)

\* ------------------------------------------------------------ the types

\* A RocType.  Every record has the same fields; those a variant does not
\* have are empty.
Ty(k, name, tags, fields, content) ==
    [kind |-> k, name |-> name, tags |-> tags, fields |-> fields,
     content |-> content, null_tag |-> <<>>, non_null_tag |-> <<>>,
     null_represents_first_tag |-> FALSE]

Prim(k) == Ty(k, <<>>, <<>>, <<>>, 0)
Tag(name, payload) == [tag |-> <<name>>, payload |-> payload]
NonRec(label, id) == [recursive |-> FALSE, label |-> label, id |-> id]
Rec(label, id) == [recursive |-> TRUE, label |-> label, id |-> id]
Struct(name, fields) == Ty("Struct", <<name>>, <<>>, fields, 0)
Enumeration(name, tags) == Ty("Enumeration", <<name>>, tags, <<>>, 0)
NullableUnwrappedTy(name, null_tag, non_null_tag, payload, first) ==
    [Ty("NullableUnwrapped", <<name>>, <<>>, <<>>, payload)
        EXCEPT !.null_tag = null_tag, !.non_null_tag = non_null_tag,
               !.null_represents_first_tag = first]

IntKinds == {"U8", "U16", "U32", "U64", "U128", "I8", "I16", "I32", "I64", "I128"}
FloatKinds == {"F32", "F64", "F128"}
ContainerKinds == {"RocDict", "RocSet", "RocList", "RocBox"}
UndeclaredKinds ==
    IntKinds \cup FloatKinds \cup {"Bool", "RocDec", "RocStr"} \cup ContainerKinds
TagUnionKinds ==
    {"Enumeration", "NonRecursive", "Recursive", "NullableWrapped",
     "NullableUnwrapped", "NonNullableUnwrapped"}

\* Types::sorted_ids: the ids of a registry, dependencies before dependents.
\* The registries below are written in that order.
sorted_ids(types) == [i \in 1..Len(types) |-> i]

\* RocType::has_pointer
RECURSIVE has_pointer(_, _)
has_pointer(typ, types) ==
    CASE typ.kind \in {"RocStr"} \cup ContainerKinds -> TRUE
      [] typ.kind \in {"Recursive", "NullableWrapped", "NullableUnwrapped",
                       "NonNullableUnwrapped"} -> TRUE
      [] typ.kind = "Struct" ->
            \E i \in 1..Len(typ.fields) :
                typ.fields[i].recursive \/ has_pointer(types[typ.fields[i].id], types)
      [] typ.kind = "TransparentWrapper" -> has_pointer(types[typ.content], types)
      [] typ.kind = "NonRecursive" ->
            \E i \in 1..Len(typ.tags) :
                typ.tags[i].payload # 0 /\ has_pointer(types[typ.tags[i].payload], types)
      [] OTHER -> FALSE

\* RocType::has_float
RECURSIVE has_float(_, _)
has_float(typ, types) ==
    CASE typ.kind \in FloatKinds -> TRUE
      [] typ.kind \in {"RocSet", "RocList", "RocBox"} -> has_float(types[typ.content], types)
      [] typ.kind = "Struct" ->
            \E i \in 1..Len(typ.fields) :
                ~typ.fields[i].recursive /\ has_float(types[typ.fields[i].id], types)
      [] typ.kind = "TransparentWrapper" -> has_float(types[typ.content], types)
      [] typ.kind \in {"NonRecursive", "Recursive"} ->
            \E i \in 1..Len(typ.tags) :
                typ.tags[i].payload # 0 /\ has_float(types[typ.tags[i].payload], types)
      [] typ.kind = "NullableUnwrapped" -> has_float(types[typ.content], types)
      [] OTHER -> FALSE

\* RocType::has_enumeration
RECURSIVE has_enumeration(_, _)
has_enumeration(typ, types) ==
    CASE typ.kind \in TagUnionKinds -> TRUE
      [] typ.kind \in {"RocSet", "RocList", "RocBox"} ->
            has_enumeration(types[typ.content], types)
      [] typ.kind = "Struct" ->
            \E i \in 1..Len(typ.fields) :
                typ.fields[i].recursive \/ has_enumeration(types[typ.fields[i].id], types)
      [] typ.kind = "TransparentWrapper" -> has_enumeration(types[typ.content], types)
      [] OTHER -> FALSE

\* Bytes of a pointer on the architecture.
PtrWidth(architecture) == IF architecture \in {"X86_64", "Aarch64"} THEN 8 ELSE 4

AlignUp(n, a) == ((n + a - 1) \div a) * a

Max2(a, b) == IF a >= b THEN a ELSE b

\* The largest element of a non-empty set of numbers.
SetMax(S) == CHOOSE x \in S : \A y \in S : y <= x

\* UnionLayout::discriminant_size(n).stack_size()
discriminant_size(n) == IF n <= 256 THEN 1 ELSE 2

PrimSize(k) ==
    CASE k \in {"U8", "I8", "Bool"} -> 1
      [] k \in {"U16", "I16"} -> 2
      [] k \in {"U32", "I32", "F32"} -> 4
      [] k \in {"U64", "I64", "F64"} -> 8
      [] OTHER -> 16

\* RocType::alignment
RECURSIVE alignment(_, _, _)
alignment(typ, types, architecture) ==
    CASE typ.kind \in IntKinds \cup FloatKinds \cup {"Bool", "RocDec"} ->
            IF PrimSize(typ.kind) > 8 THEN 16 ELSE PrimSize(typ.kind)
      [] typ.kind = "Struct" ->
            LET al(i) == IF typ.fields[i].recursive THEN PtrWidth(architecture)
                         ELSE alignment(types[typ.fields[i].id], types, architecture)
            IN SetMax({1} \cup {al(i) : i \in 1..Len(typ.fields)})
      [] typ.kind = "TransparentWrapper" -> alignment(types[typ.content], types, architecture)
      [] typ.kind = "Enumeration" -> discriminant_size(Len(typ.tags))
      [] typ.kind = "NonRecursive" ->
            LET al(i) == IF typ.tags[i].payload = 0 THEN 1
                         ELSE alignment(types[typ.tags[i].payload], types, architecture)
            IN SetMax({1} \cup {al(i) : i \in 1..Len(typ.tags)})
      [] OTHER -> PtrWidth(architecture)

\* RocType::size
RECURSIVE size(_, _, _)
size(typ, types, architecture) ==
    CASE typ.kind \in IntKinds \cup FloatKinds \cup {"Bool", "RocDec"} -> PrimSize(typ.kind)
      [] typ.kind \in {"RocStr", "RocList"} -> 3 * PtrWidth(architecture)
      [] typ.kind = "Struct" ->
            LET sz(i) == IF typ.fields[i].recursive THEN PtrWidth(architecture)
                         ELSE size(types[typ.fields[i].id], types, architecture)
                al(i) == IF typ.fields[i].recursive THEN PtrWidth(architecture)
                         ELSE alignment(types[typ.fields[i].id], types, architecture)
                end[i \in 0..Len(typ.fields)] ==
                    IF i = 0 THEN 0 ELSE AlignUp(end[i - 1], al(i)) + sz(i)
            IN AlignUp(end[Len(typ.fields)], alignment(typ, types, architecture))
      [] typ.kind = "TransparentWrapper" -> size(types[typ.content], types, architecture)
      [] typ.kind = "Enumeration" ->
            IF Len(typ.tags) <= 1 THEN 0 ELSE discriminant_size(Len(typ.tags))
      [] typ.kind \in {"NonRecursive", "Recursive"} ->
            LET sz(i) == IF typ.tags[i].payload = 0 THEN 0
                         ELSE size(types[typ.tags[i].payload], types, architecture)
                largest == SetMax({0} \cup {sz(i) : i \in 1..Len(typ.tags)})
            IN IF typ.kind = "Recursive" THEN Max2(largest, PtrWidth(architecture))
               ELSE AlignUp(largest + discriminant_size(Len(typ.tags)),
                            alignment(typ, types, architecture))
      [] OTHER -> PtrWidth(architecture)

\* RocTagUnion::discriminant_offset: right after the largest payload
discriminant_offset(tags, types, architecture) ==
    LET sz(i) == IF tags[i].payload = 0 THEN 0
                 ELSE size(types[tags[i].payload], types, architecture)
    IN SetMax({0} \cup {sz(i) : i \in 1..Len(tags)})

\* --------------------------------------------------- the Declaration Store

\* The position of the scope in impls, 0 when it has no entry.
ScopeIndex(m, opt_impl) ==
    IF \E i \in 1..Len(m) : m[i].scope = opt_impl
    THEN CHOOSE i \in 1..Len(m) : m[i].scope = opt_impl
    ELSE 0

\* The position of the body among the decls of a scope, 0 when it has no entry.
BodyIndex(decls, body) ==
    IF \E i \in 1..Len(decls) : decls[i].body = body
    THEN CHOOSE i \in 1..Len(decls) : decls[i].body = body
    ELSE 0

\* A plausible slip: every call makes a new entry, equal bodies are not merged.
add_decl_nomerge(m, opt_impl, architecture, body) ==
    LET si == ScopeIndex(m, opt_impl)
        m1 == IF si = 0 THEN Append(m, [scope |-> opt_impl, decls |-> <<>>]) ELSE m
        s == IF si = 0 THEN Len(m1) ELSE si
    IN [m1 EXCEPT ![s].decls = Append(@, [body |-> body, archs |-> <<architecture>>])]

\* A plausible slip: the entry is made but the architecture is only recorded
\* for a body that is new.
add_decl_nopush(m, opt_impl, architecture, body) ==
    LET si == ScopeIndex(m, opt_impl)
        m1 == IF si = 0 THEN Append(m, [scope |-> opt_impl, decls |-> <<>>]) ELSE m
        s == IF si = 0 THEN Len(m1) ELSE si
        bi == BodyIndex(m1[s].decls, body)
    IN IF bi = 0
       THEN [m1 EXCEPT ![s].decls = Append(@, [body |-> body, archs |-> <<>>])]
       ELSE [m1 EXCEPT ![s].decls[bi].archs = Append(@, architecture)]

\* A plausible slip: a body that is added again moves to the end of its scope
\* (a remove followed by an insert).
add_decl_reinsert(m, opt_impl, architecture, body) ==
    LET si == ScopeIndex(m, opt_impl)
        m1 == IF si = 0 THEN Append(m, [scope |-> opt_impl, decls |-> <<>>]) ELSE m
        s == IF si = 0 THEN Len(m1) ELSE si
        decls == m1[s].decls
        bi == BodyIndex(decls, body)
        old == IF bi = 0 THEN <<>> ELSE decls[bi].archs
        rest == IF bi = 0 THEN decls
                ELSE SubSeq(decls, 1, bi - 1) \o SubSeq(decls, bi + 1, Len(decls))
    IN [m1 EXCEPT ![s].decls =
            Append(rest, [body |-> body, archs |-> Append(old, architecture)])]

\* add_decl: impls.entry(opt_impl).or_default().entry(body).or_default().push(architecture)
\* A plausible slip: one map of bodies for all scopes, a body that some scope
\* already holds is found there and gets the architecture.
add_decl_anyscope(m, opt_impl, architecture, body) ==
    LET holders == {i \in 1..Len(m) : BodyIndex(m[i].decls, body) # 0}
        si == ScopeIndex(m, opt_impl)
        m1 == IF si = 0 THEN Append(m, [scope |-> opt_impl, decls |-> <<>>]) ELSE m
        s == IF holders # {} THEN CHOOSE i \in holders : \A j \in holders : i <= j
             ELSE IF si = 0 THEN Len(m1) ELSE si
        decls == m1[s].decls
        bi == BodyIndex(decls, body)
        decls1 == IF bi = 0 THEN Append(decls, [body |-> body, archs |-> <<>>]) ELSE decls
        b == IF bi = 0 THEN Len(decls1) ELSE bi
    IN [m1 EXCEPT ![s].decls = [decls1 EXCEPT ![b].archs = Append(@, architecture)]]

add_decl(m, opt_impl, architecture, body) ==
    LET si == ScopeIndex(m, opt_impl)
        m1 == IF si = 0 THEN Append(m, [scope |-> opt_impl, decls |-> <<>>]) ELSE m
        s == IF si = 0 THEN Len(m1) ELSE si
        decls == m1[s].decls
        bi == BodyIndex(decls, body)
        decls1 == IF bi = 0 THEN Append(decls, [body |-> body, archs |-> <<>>]) ELSE decls
        b == IF bi = 0 THEN Len(decls1) ELSE bi
    IN [m1 EXCEPT ![s].decls = [decls1 EXCEPT ![b].archs = Append(@, architecture)]]

\* The calls of add_decl a function makes, in order: each is <<opt_impl, body>>.
Decl(opt_impl, body) == [scope |-> opt_impl, body |-> body]

\* What a call of add_type (or of a function it calls) does to impls: the
\* add_decl calls it makes before it returns or unwinds, and the todo!() that
\* unwound it (empty when it returned).
Returned(decls) == [decls |-> decls, panic |-> <<>>]
Unwound(decls, why) == [decls |-> decls, panic |-> why]

\* The calls of add_decl in order.  The map after the first half is bound as a
\* value (a member of a singleton set) before the second half is applied to it.
RECURSIVE add_decls(_, _, _)
add_decls(m, architecture, decls) ==
    IF Len(decls) = 0 THEN m
    ELSE IF Len(decls) = 1 THEN add_decl(m, decls[1].scope, architecture, decls[1].body)
    ELSE LET h == Len(decls) \div 2
         IN CHOOSE r \in {add_decls(m1, architecture, SubSeq(decls, h + 1, Len(decls))) :
                            m1 \in {add_decls(m, architecture, SubSeq(decls, 1, h))}} : TRUE

\* ------------------------------------------------------------- the names

RECURSIVE type_name(_, _)
type_name(id, types) ==
    LET t == types[id] IN
    CASE t.kind \in {"U8", "U16", "U32", "U64", "I8", "I16", "I32", "I64",
                     "F32", "F64", "Bool"} ->
            <<CASE t.kind = "U8" -> "u8" [] t.kind = "U16" -> "u16"
                [] t.kind = "U32" -> "u32" [] t.kind = "U64" -> "u64"
                [] t.kind = "I8" -> "i8" [] t.kind = "I16" -> "i16"
                [] t.kind = "I32" -> "i32" [] t.kind = "I64" -> "i64"
                [] t.kind = "F32" -> "f32" [] t.kind = "F64" -> "f64"
                [] t.kind = "Bool" -> "bool">>
      [] t.kind \in {"U128", "I128", "F128", "RocDec", "RocStr"} ->
            <<"roc_std::", t.kind>>
      [] t.kind = "RocDict" ->
            <<"roc_std::RocDict<">> \o type_name(t.content, types) \o <<", ">>
                \o type_name(t.fields[1].id, types) \o <<">">>
      [] t.kind \in {"RocSet", "RocList", "RocBox"} ->
            <<"roc_std::", t.kind, "<">> \o type_name(t.content, types) \o <<">">>
      [] OTHER -> t.name

derive_str(typ, types, include_debug) ==
    <<"#[derive(Clone, ">>
        \o (IF ~has_pointer(typ, types) THEN <<"Copy, ">> ELSE <<>>)
        \o (IF include_debug THEN <<"Debug, ">> ELSE <<>>)
        \o (IF ~has_enumeration(typ, types) THEN <<"Default, ">> ELSE <<>>)
        \o (IF ~has_float(typ, types) THEN <<"Eq, Ord, Hash, ">> ELSE <<>>)
        \o <<"PartialEq, PartialOrd)]">>

write_indents(indentations) == [i \in 1..indentations |-> INDENT]

\* ---------------------------------------------------------- enumerations

\* enumeration_body with the ordinals counted from 1.
enumeration_body_from_one(name, typ, tags, types) ==
    LET tag_bytes == discriminant_size(Len(tags))
        derive == derive_str(typ, types, FALSE)
        repr_bytes == tag_bytes * 8
        head == derive \o <<"\n#[repr(u", ToString(repr_bytes), ")]\npub enum ">>
                    \o name \o <<" {\n">>
        debug_head == <<"impl core::fmt::Debug for ">> \o name
                          \o <<" {\n    fn fmt(&self, f: &mut core::fmt::Formatter<'_>) -> core::fmt::Result {\n        match self {\n">>
        line(i) == <<INDENT>> \o tags[i] \o <<" = ", ToString(i), ",\n">>
        debug_line(i) == write_indents(3) \o <<"Self::">> \o tags[i]
                            \o <<" => f.write_str(\"">> \o name \o <<"::">> \o tags[i]
                            \o <<"\"),\n">>
    IN head \o Flatten([i \in 1..Len(tags) |-> line(i)]) \o <<"}\n\n">>
            \o debug_head \o Flatten([i \in 1..Len(tags) |-> debug_line(i)])
            \o <<INDENT, INDENT, "}\n", INDENT, "}\n", "}">>

\* The body add_enumeration hands to add_decl (lines 1037-1068).
enumeration_body(name, typ, tags, types) ==
    LET tag_bytes == discriminant_size(Len(tags))
        derive == derive_str(typ, types, FALSE)
        repr_bytes == tag_bytes * 8
        head == derive \o <<"\n#[repr(u", ToString(repr_bytes), ")]\npub enum ">>
                    \o name \o <<" {\n">>
        debug_head == <<"impl core::fmt::Debug for ">> \o name
                          \o <<" {\n    fn fmt(&self, f: &mut core::fmt::Formatter<'_>) -> core::fmt::Result {\n        match self {\n">>
        line(i) == <<INDENT>> \o tags[i] \o <<" = ", ToString(i - 1), ",\n">>
        debug_line(i) == write_indents(3) \o <<"Self::">> \o tags[i]
                            \o <<" => f.write_str(\"">> \o name \o <<"::">> \o tags[i]
                            \o <<"\"),\n">>
    IN head \o Flatten([i \in 1..Len(tags) |-> line(i)]) \o <<"}\n\n">>
            \o debug_head \o Flatten([i \in 1..Len(tags) |-> debug_line(i)])
            \o <<INDENT, INDENT, "}\n", INDENT, "}\n", "}">>

add_enumeration(name, architecture, typ, tags, types) ==
    Returned(<<Decl(<<>>, enumeration_body(name, typ, tags, types))>>)

\* add_discriminant: the name it returns
discriminant_name_of(name) == <<"variant_">> \o name

add_discriminant(name, architecture, tag_names, types) ==
    LET discriminant_name == discriminant_name_of(name)
        discriminant_type ==
            Ty("Enumeration", discriminant_name,
               [i \in 1..Len(tag_names) |-> [tag |-> tag_names[i], payload |-> 0]],
               <<>>, 0)
    IN add_enumeration(discriminant_name, architecture, discriminant_type, tag_names, types)

\* ------------------------------------------------------------ tag unions

\* write_impl_tags: a match on self.variant() with one branch per tag;
\* to_branch_str[i] is the closure's result for the i-th tag and its payload
write_impl_tags(indentations, tags, discriminant_name, to_branch_str) ==
    LET branch(i) ==
            write_indents(indentations + 1) \o discriminant_name \o <<"::">> \o tags[i].tag
                \o <<" => ">> \o to_branch_str[i] \o <<"\n">>
    IN write_indents(indentations) \o <<"match self.variant() {\n">>
           \o Flatten([i \in 1..Len(tags) |-> branch(i)])
           \o write_indents(indentations) \o <<"}\n">>

\* The first Recursive field of a payload struct, 0 when it has none (lines 273-285).
FirstRecursiveField(typ) ==
    IF typ.kind = "Struct" /\ \E i \in 1..Len(typ.fields) : typ.fields[i].recursive
    THEN CHOOSE i \in 1..Len(typ.fields) :
            typ.fields[i].recursive /\ \A j \in 1..(i - 1) : ~typ.fields[j].recursive
    ELSE 0

\* recursive_pointer_field (lines 269-298)
recursive_pointer_field_of(is_recursive, tags, types) ==
    LET has(i) == tags[i].payload # 0 /\ FirstRecursiveField(types[tags[i].payload]) # 0
    IN IF is_recursive /\ \E i \in 1..Len(tags) : has(i)
       THEN LET i == CHOOSE i \in 1..Len(tags) : has(i) /\ \A j \in 1..(i - 1) : ~has(j)
                payload == types[tags[i].payload]
            IN tags[i].tag \o <<".">> \o payload.fields[FirstRecursiveField(payload)].label
       ELSE <<>>

\* The union declaration (lines 300-337).
union_body(name, tags, types, sz) ==
    LET slot(i) ==
            IF tags[i].payload = 0 THEN <<>>
            ELSE <<INDENT>> \o tags[i].tag \o <<": ">>
                    \o (IF has_pointer(types[tags[i].payload], types)
                        THEN <<"core::mem::ManuallyDrop<">>
                                \o type_name(tags[i].payload, types) \o <<">,\n">>
                        ELSE type_name(tags[i].payload, types) \o <<",\n">>)
    IN <<"#[repr(C)]\npub union ">> \o name \o <<" {\n">>
           \o Flatten([i \in 1..Len(tags) |-> slot(i)])
           \o <<INDENT, "_sizer: [u8; ", ToString(sz), "],\n}">>

\* variant and set_discriminant of a recursive union (lines 349-378).
recursive_variant_body(discriminant_name, recursive_pointer_field, bitmask) ==
    <<VARIANT_DOC_COMMENT, "\n    pub fn variant(&self) -> ">> \o discriminant_name
        \o <<" {\n        unsafe { core::mem::transmute::<u8, ">> \o discriminant_name
        \o <<">((self.">> \o recursive_pointer_field \o <<" as u8) & ">> \o bitmask
        \o <<") }\n    }">>

recursive_set_discriminant_body(discriminant_name, recursive_pointer_field, bitmask) ==
    <<"/// Internal helper\n    fn set_discriminant(&mut self, discriminant: ">>
        \o discriminant_name
        \o <<") {\n        unsafe {\n            let untagged = (self.">>
        \o recursive_pointer_field \o <<" as usize) & (!">> \o bitmask
        \o <<" as usize);\n            let tagged = untagged | (self.variant() as usize);\n\n            self.">>
        \o recursive_pointer_field \o <<" = tagged as *mut Self;\n        }\n    }">>

\* variant and set_discriminant of a non-recursive union (lines 404-434).
nonrecursive_variant_body(discriminant_name, offset) ==
    <<VARIANT_DOC_COMMENT, "\n    pub fn variant(&self) -> ">> \o discriminant_name
        \o <<" {\n        unsafe {\n            let bytes = core::mem::transmute::<&Self, &[u8; core::mem::size_of::<Self>()]>(self);\n\n            core::mem::transmute::<u8, ">>
        \o discriminant_name \o <<">(*bytes.as_ptr().add(", ToString(offset), "))\n        }\n    }">>

nonrecursive_set_discriminant_body(name, discriminant_name, offset) ==
    <<"/// Internal helper\n    fn set_discriminant(&mut self, discriminant: ">>
        \o discriminant_name \o <<") {\n        let discriminant_ptr: *mut ">>
        \o discriminant_name \o <<" = (self as *mut ">> \o name
        \o <<").cast();\n\n        unsafe {\n            *(discriminant_ptr.add(",
             ToString(offset), ")) = discriminant;\n        }\n    }">>

\* The pieces of the constructor and accessors of a tag with a payload
\* (lines 450-616).
payload_parts(tag_name, payload_id, types, bitmask) ==
    LET payload_type == types[payload_id]
        ptr == has_pointer(payload_type, types)
        get_payload == IF ptr
                       THEN <<"core::mem::ManuallyDrop::take(&mut self.">> \o tag_name \o <<")">>
                       ELSE <<"self.">> \o tag_name
        self_for_into == IF ptr THEN <<"mut self">> ELSE <<"self">>
        fields == payload_type.fields
        field_type_name(i) == type_name(fields[i].id, types)
        ret_value(i) ==
            IF fields[i].recursive
            THEN <<"*((payload.">> \o fields[i].label \o <<" as usize & !">> \o bitmask
                    \o <<") as *mut ">> \o field_type_name(i) \o <<")">>
            ELSE <<"payload.">> \o fields[i].label
    IN CASE payload_type.kind = "TransparentWrapper" ->
            [get_payload |-> get_payload, self_for_into |-> self_for_into,
             init_payload |-> IF ptr
                              THEN <<"core::mem::ManuallyDrop::new(">>
                                      \o type_name(payload_id, types) \o <<"(payload))">>
                              ELSE type_name(payload_id, types) \o <<"(payload)">>,
             owned_ret_type |-> type_name(payload_type.content, types),
             borrowed_ret_type |-> <<"&">> \o type_name(payload_type.content, types),
             owned_ret |-> <<"payload.0">>,
             borrowed_ret |-> <<"&", "payload.0">>,
             payload_args |-> <<"arg: ">> \o type_name(payload_type.content, types),
             args_to_payload |-> <<"arg">>]
         [] payload_type.kind = "Struct" ->
            [get_payload |-> get_payload, self_for_into |-> self_for_into,
             init_payload |-> IF ptr THEN <<"core::mem::ManuallyDrop::new(payload)">>
                              ELSE <<"payload">>,
             owned_ret_type |->
                <<"(">> \o Join([i \in 1..Len(fields) |-> field_type_name(i)], <<", ">>)
                    \o <<")">>,
             borrowed_ret_type |->
                <<"(">> \o Join([i \in 1..Len(fields) |-> <<"&">> \o field_type_name(i)],
                                <<", ">>) \o <<")">>,
             owned_ret |->
                <<"(">> \o Join([i \in 1..Len(fields) |->
                                    <<"\n", INDENT, INDENT, INDENT>> \o ret_value(i)],
                                <<", ">>) \o <<"\n", INDENT, INDENT, ")">>,
             borrowed_ret |->
                <<"(">> \o Join([i \in 1..Len(fields) |->
                                    <<"\n", INDENT, INDENT, INDENT, "&">> \o ret_value(i)],
                                <<", ">>) \o <<"\n", INDENT, INDENT, ")">>,
             payload_args |->
                Join([i \in 1..Len(fields) |->
                        <<"arg", ToString(i - 1), ": ">> \o field_type_name(i)], <<", ">>),
             args_to_payload |->
                type_name(payload_id, types) \o <<" {\n">>
                    \o Join([i \in 1..Len(fields) |->
                                <<INDENT, INDENT, INDENT>> \o fields[i].label
                                    \o <<": arg", ToString(i - 1), ",">>], <<"\n">>)
                    \o <<"\n", INDENT, INDENT, "}">>]
         [] OTHER ->
            [get_payload |-> get_payload, self_for_into |-> self_for_into,
             init_payload |-> IF ptr THEN <<"core::mem::ManuallyDrop::new(payload)">>
                              ELSE <<"payload">>,
             owned_ret_type |-> type_name(payload_id, types),
             borrowed_ret_type |-> <<"&">> \o type_name(payload_id, types),
             owned_ret |-> <<"payload">>,
             borrowed_ret |-> <<"&payload">>,
             payload_args |-> <<"arg: ">> \o type_name(payload_id, types),
             args_to_payload |-> <<"arg">>]

\* The three declarations of a tag with a payload (lines 618-671).
payload_tag_decls(opt_impl, name, discriminant_name, tag_name, p) ==
    <<Decl(opt_impl,
           <<"/// Construct a tag named ">> \o tag_name \o <<"\n    pub fn ">> \o tag_name
               \o <<"(">> \o p.payload_args \o <<") -> Self {\n        let payload = ">>
               \o p.args_to_payload \o <<";\n        let mut answer = Self {\n            ">>
               \o tag_name \o <<": ">> \o p.init_payload
               \o <<"\n        };\n\n        answer.set_discriminant(">>
               \o discriminant_name \o <<"::">> \o tag_name
               \o <<");\n\n        answer\n    }">>),
      Decl(opt_impl,
           <<"/// Unsafely assume the given ">> \o name \o <<" has a .variant() of ">>
               \o tag_name \o <<" and convert it\n    pub unsafe fn into_">> \o tag_name
               \o <<"(">> \o p.self_for_into \o <<") -> ">> \o p.owned_ret_type
               \o <<" {\n        debug_assert_eq!(self.variant(), ">>
               \o discriminant_name \o <<"::">> \o tag_name
               \o <<");\n\n        let payload = ">> \o p.get_payload \o <<";\n\n        ">>
               \o p.owned_ret \o <<"\n    }">>),
      Decl(opt_impl,
           <<"/// Unsafely assume the given ">> \o name \o <<" has a .variant() of ">>
               \o tag_name \o <<" and return it\n    pub unsafe fn as_">> \o tag_name
               \o <<"(&self) -> ">> \o p.borrowed_ret_type
               \o <<" {\n        debug_assert_eq!(self.variant(), ">>
               \o discriminant_name \o <<"::">> \o tag_name
               \o <<");\n\n        let payload = ">> \o p.get_payload \o <<";\n\n        ">>
               \o p.borrowed_ret \o <<"\n    }">>)>>

\* The three declarations of a tag without payload (lines 673-713).
plain_tag_decls(opt_impl, name, discriminant_name, tag_name, offset) ==
    <<Decl(opt_impl,
           <<"/// A tag named ">> \o tag_name \o <<", which has no payload.\n    pub const ">>
               \o tag_name \o <<": Self = unsafe {\n        let mut bytes = [0; core::mem::size_of::<">>
               \o name \o <<">()];\n\n        bytes[", ToString(offset), "] = ">>
               \o discriminant_name \o <<"::">> \o tag_name
               \o <<" as u8;\n\n        core::mem::transmute::<[u8; core::mem::size_of::<">>
               \o name \o <<">()], ">> \o name \o <<">(bytes)\n    };">>),
      Decl(opt_impl,
           <<"/// no payload\n    pub fn into_">> \o tag_name
               \o <<"(self) {\n        ()\n    }">>),
      Decl(opt_impl,
           <<"/// no payload\n    pub unsafe fn as_">> \o tag_name
               \o <<"(&self) {\n        ()\n    }">>)>>

\* The handwritten trait impls of a tag union (lines 718-996).
drop_branch(types, tag_name, payload) ==
    IF payload # 0 /\ has_pointer(types[payload], types)
    THEN <<"unsafe { core::mem::ManuallyDrop::drop(&mut self.">> \o tag_name \o <<") },">>
    ELSE <<"{}">>

union_impl_decls(name, discriminant_name, typ, tags, types) ==
    LET each(b(_, _)) == [i \in 1..Len(tags) |-> b(tags[i].tag, tags[i].payload)]
        drop_b(t, p) == drop_branch(types, t, p)
        eq_b(t, p) == IF p # 0 THEN <<"self.">> \o t \o <<" == other.">> \o t \o <<",">>
                      ELSE <<"true,">>
        partial_cmp_b(t, p) ==
            IF p # 0 THEN <<"self.">> \o t \o <<".partial_cmp(&other.">> \o t \o <<"),">>
            ELSE <<"Some(core::cmp::Ordering::Equal),">>
        cmp_b(t, p) == IF p # 0 THEN <<"self.">> \o t \o <<".cmp(&other.">> \o t \o <<"),">>
                       ELSE <<"core::cmp::Ordering::Equal,">>
        clone_b(t, p) ==
            IF p # 0
            THEN <<"Self {\n                    ">> \o t \o <<": self.">> \o t
                    \o <<".clone(),\n                },">>
            ELSE <<"core::mem::transmute::<\n                    core::mem::MaybeUninit<">>
                    \o name \o <<">,\n                    ">> \o name
                    \o <<",\n                >(core::mem::MaybeUninit::uninit()),">>
        hash_b(t, p) ==
            LET hash_tag == discriminant_name \o <<"::">> \o t \o <<".hash(state)">>
            IN IF p # 0
               THEN <<"unsafe {\n                    ">> \o hash_tag
                       \o <<";\n                    self.">> \o t
                       \o <<".hash(state);\n                },">>
               ELSE hash_tag \o <<",">>
        debug_b(t, p) ==
            IF p # 0
            THEN <<"f.debug_tuple(\"">> \o t \o <<"\").field(">>
                    \o (IF has_pointer(types[p], types) THEN <<"&*">> ELSE <<"&">>)
                    \o <<"self.">> \o t \o <<").finish(),">>
            ELSE <<"f.write_str(\"">> \o t \o <<"\"),">>
        eq_prefix == IF has_float(typ, types) THEN <<>>
                     ELSE <<"impl Eq for ">> \o name \o <<" {}\n\n">>
        copy_prefix == IF has_pointer(typ, types) THEN <<>>
                       ELSE <<"impl Copy for ">> \o name \o <<" {}\n\n">>
        close == <<INDENT, INDENT, "}\n", INDENT, "}">>
    IN <<Decl(<<"impl Drop for ">> \o name,
              <<"fn drop(&mut self) {\n">>
                  \o write_impl_tags(2, tags, discriminant_name, each(drop_b)) \o <<INDENT, "}">>),
         Decl(eq_prefix \o <<"impl PartialEq for ">> \o name,
              <<"fn eq(&self, other: &Self) -> bool {\n            if self.variant() != other.variant() {\n                return false;\n            }\n\n            unsafe {\n">>
                  \o write_impl_tags(3, tags, discriminant_name, each(eq_b)) \o close),
         Decl(<<"impl PartialOrd for ">> \o name,
              <<"fn partial_cmp(&self, other: &Self) -> Option<core::cmp::Ordering> {\n            unsafe {\n">>
                  \o write_impl_tags(3, tags, discriminant_name, each(partial_cmp_b)) \o close),
         Decl(<<"impl Ord for ">> \o name,
              <<"fn cmp(&self, other: &Self) -> core::cmp::Ordering {\n            unsafe {\n">>
                  \o write_impl_tags(3, tags, discriminant_name, each(cmp_b)) \o close),
         Decl(copy_prefix \o <<"impl Clone for ">> \o name,
              <<"fn clone(&self) -> Self {\n        let mut answer = unsafe {\n">>
                  \o write_impl_tags(3, tags, discriminant_name, each(clone_b))
                  \o <<"\n        };\n\n        answer.set_discriminant(self.variant());\n\n        answer\n    }">>),
         Decl(<<"impl core::hash::Hash for ">> \o name,
              <<"fn hash<H: core::hash::Hasher>(&self, state: &mut H) {">>
                  \o write_impl_tags(2, tags, discriminant_name, each(hash_b)) \o <<INDENT, "}">>),
         Decl(<<"impl core::fmt::Debug for ">> \o name,
              <<"fn fmt(&self, f: &mut core::fmt::Formatter<'_>) -> core::fmt::Result {\n            f.write_str(\"">>
                  \o name \o <<"::\")?;\n\n            unsafe {\n">>
                  \o write_impl_tags(3, tags, discriminant_name, each(debug_b)) \o close)>>

\* The text of the todo!() of line 380.
TooManyTags(n, architecture) ==
    <<"not yet implemented: Support ", ToString(n),
      " tags in a recursive tag union on architecture ", architecture>>

add_tag_union(is_recursive, name, architecture, type_id, tags, types) ==
    LET tag_names == [i \in 1..Len(tags) |-> tags[i].tag]
        disc == add_discriminant(name, architecture, tag_names, types)
        discriminant_name == discriminant_name_of(name)
        typ == types[type_id]
        offset == discriminant_offset(tags, types, architecture)
        sz == size(typ, types, architecture)
        recursive_pointer_field == recursive_pointer_field_of(is_recursive, tags, types)
        union_decl == Decl(<<>>, union_body(name, tags, types, sz))
        opt_impl == <<"impl ">> \o name
        fits == Len(tags) <= max_pointer_tagged_variants(architecture)
        bitmask == IF is_recursive THEN FormatBin(tagged_pointer_bitmask(architecture))
                   ELSE <<>>
        discriminant_decls ==
            IF is_recursive
            THEN <<Decl(opt_impl, recursive_variant_body(discriminant_name,
                                                         recursive_pointer_field, bitmask)),
                   Decl(opt_impl, recursive_set_discriminant_body(discriminant_name,
                                                         recursive_pointer_field, bitmask))>>
            ELSE <<Decl(opt_impl, nonrecursive_variant_body(discriminant_name, offset)),
                   Decl(opt_impl, nonrecursive_set_discriminant_body(name, discriminant_name,
                                                                     offset))>>
        tag_decls(i) ==
            IF tags[i].payload # 0
            THEN payload_tag_decls(opt_impl, name, discriminant_name, tags[i].tag,
                                   payload_parts(tags[i].tag, tags[i].payload, types, bitmask))
            ELSE plain_tag_decls(opt_impl, name, discriminant_name, tags[i].tag, offset)
    IN IF is_recursive /\ ~fits
       THEN Unwound(disc.decls \o <<union_decl>>, TooManyTags(Len(tags), architecture))
       ELSE Returned(disc.decls \o <<union_decl>> \o discriminant_decls
                        \o Flatten([i \in 1..Len(tags) |-> tag_decls(i)])
                        \o union_impl_decls(name, discriminant_name, typ, tags, types))

\* ------------------------------------------------ nullable-unwrapped unions

\* The characters names are made of, in the order of their code points.
Alphabet ==
    <<"0", "1", "2", "3", "4", "5", "6", "7", "8", "9",
      "A", "B", "C", "D", "E", "F", "G", "H", "I", "J", "K", "L", "M",
      "N", "O", "P", "Q", "R", "S", "T", "U", "V", "W", "X", "Y", "Z", "_",
      "a", "b", "c", "d", "e", "f", "g", "h", "i", "j", "k", "l", "m",
      "n", "o", "p", "q", "r", "s", "t", "u", "v", "w", "x", "y", "z">>

\* String's Ord, on texts written one character per atom.
RECURSIVE StrLess(_, _)
StrLess(a, b) ==
    IF b = <<>> THEN FALSE
    ELSE IF a = <<>> THEN TRUE
    ELSE IF a[1] = b[1] THEN StrLess(Tail(a), Tail(b))
    ELSE IndexOf(Alphabet, a[1]) < IndexOf(Alphabet, b[1])

\* A plausible slip: the names are left in the order null tag, non-null tag.
sorted_tag_names_unsorted(null_tag, non_null_tag) == <<null_tag, non_null_tag>>

\* vec![null_tag, non_null_tag] after tag_names.sort() (lines 1191-1193)
sorted_tag_names(null_tag, non_null_tag) ==
    IF StrLess(non_null_tag, null_tag) THEN <<non_null_tag, null_tag>>
    ELSE <<null_tag, non_null_tag>>

\* The Drop impl of a nullable-unwrapped union (lines 1426-1464).
nullable_drop_body(payload_type_name) ==
    <<"fn drop(&mut self) {\n        if let Some(storage) = self.storage() {\n            let mut new_storage = storage.get();\n            if new_storage.is_readonly() { return; }\n            let needs_dealloc = new_storage.decrease();\n            if !needs_dealloc { storage.set(new_storage); return; }\n            if !self.pointer.is_null() {\n               let payload = unsafe { core::mem::ManuallyDrop::take(&mut *self.pointer) };\n                core::mem::drop::<">>
        \o payload_type_name
        \o <<">(payload);\n            }\n            unsafe {\n                let alignment = core::mem::align_of::<Self>().max(core::mem::align_of::<roc_std::Storage>());\n                let alloc_ptr = self.pointer.cast::<u8>().sub(alignment);\n                crate::roc_dealloc(alloc_ptr as *mut core::ffi::c_void, alignment as u32);\n            }\n        }\n    }">>

add_nullable_unwrapped(name, architecture, id, null_tag, non_null_tag, non_null_payload, types) ==
    LET tag_names == sorted_tag_names(null_tag, non_null_tag)
        disc == add_discriminant(name, architecture, tag_names, types)
        discriminant_name == discriminant_name_of(name)
        payload_type == types[non_null_payload]
        payload_type_name == type_name(non_null_payload, types)
        ptr == has_pointer(payload_type, types)
        derive_extras == IF has_float(types[id], types) THEN <<>> ELSE <<", Eq, Ord, Hash">>
        opt_impl == <<"impl ">> \o name
        assign_payload == IF ptr THEN <<"core::mem::ManuallyDrop::take(&mut *self.pointer)">>
                          ELSE <<"*self.pointer">>
        extra_deref == IF ptr THEN <<"*">> ELSE <<>>
    IN Returned(disc.decls \o
        <<Decl(<<>>,
               <<"#[repr(C)]\n#[derive(PartialEq, PartialOrd">> \o derive_extras
                   \o <<")]\npub struct ">> \o name
                   \o <<" {\n    pointer: *mut core::mem::ManuallyDrop<">>
                   \o payload_type_name \o <<">,\n}">>),
          Decl(opt_impl,
               <<"#[inline(always)]\n    fn storage(&self) -> Option<&core::cell::Cell<roc_std::Storage>> {\n        if self.pointer.is_null() {\n            None\n        } else {\n            unsafe {\n                Some(&*self.pointer.cast::<core::cell::Cell<roc_std::Storage>>().sub(1))\n            }\n        }\n    }">>),
          Decl(opt_impl,
               <<VARIANT_DOC_COMMENT, "\n    pub fn variant(&self) -> ">> \o discriminant_name
                   \o <<" {\n        if self.pointer.is_null() {\n            ">>
                   \o discriminant_name \o <<"::">> \o null_tag
                   \o <<"\n        } else {\n            ">>
                   \o discriminant_name \o <<"::">> \o non_null_tag
                   \o <<"\n        }\n    }">>),
          Decl(opt_impl,
               <<"/// Construct a tag named ">> \o non_null_tag \o <<"\n    pub fn ">>
                   \o non_null_tag \o <<"(payload: ">> \o payload_type_name
                   \o <<") -> Self {\n        let payload_align = core::mem::align_of::<">>
                   \o payload_type_name
                   \o <<">();\n        let self_align = core::mem::align_of::<Self>();\n        let size = self_align + core::mem::size_of::<">>
                   \o payload_type_name
                   \o <<">();\n\n        unsafe {\n            let alloc_ptr = crate::roc_alloc(size, payload_align as u32);\n            let payload_ptr = alloc_ptr.cast::<u8>().add(self_align).cast::<core::mem::ManuallyDrop<">>
                   \o payload_type_name
                   \o <<">>();\n\n            *payload_ptr = core::mem::ManuallyDrop::new(payload);\n\n            let storage_ptr = payload_ptr.cast::<roc_std::Storage>().sub(1);\n            storage_ptr.write(roc_std::Storage::new_reference_counted());\n\n            Self { pointer: payload_ptr }\n        }\n    }">>),
          Decl(opt_impl,
               <<"/// Unsafely assume the given ">> \o name \o <<" has a .variant() of ">>
                   \o non_null_tag \o <<" and convert it\n    pub unsafe fn into_">>
                   \o non_null_tag \o <<"(self) -> ">> \o payload_type_name
                   \o <<" {\n        debug_assert_eq!(self.variant(), ">>
                   \o discriminant_name \o <<"::">> \o non_null_tag
                   \o <<");\n\n        let payload = ">> \o assign_payload
                   \o <<";\n\n        core::mem::drop::<Self>(self);\n\n        payload\n    }">>),
          Decl(opt_impl,
               <<"/// Unsafely assume the given ">> \o name \o <<" has a .variant() of ">>
                   \o non_null_tag \o <<" and return it\n    pub unsafe fn as_">>
                   \o non_null_tag \o <<"(&self) -> &">> \o payload_type_name
                   \o <<" {\n        debug_assert_eq!(self.variant(), ">>
                   \o discriminant_name \o <<"::">> \o non_null_tag
                   \o <<");\n        &*self.pointer\n    }">>),
          Decl(opt_impl,
               <<"/// A tag named ">> \o null_tag \o <<", which has no payload.\n    pub const ">>
                   \o null_tag
                   \o <<": Self = Self {\n        pointer: core::ptr::null_mut(),\n    };">>),
          Decl(opt_impl,
               <<"/// no payload\n    pub fn into_">> \o null_tag
                   \o <<"(self) {\n        ()\n    }">>),
          Decl(opt_impl,
               <<"/// no payload\n    pub unsafe fn as_">> \o null_tag
                   \o <<"(&self) {\n        ()\n    }">>),
          Decl(<<"impl Clone for ">> \o name,
               <<"fn clone(&self) -> Self {\n        if let Some(storage) = self.storage() {\n            let mut new_storage = storage.get();\n            if !new_storage.is_readonly() {\n                new_storage.increment_reference_count();\n                storage.set(new_storage);\n            }\n        }\n\n        Self {\n            pointer: self.pointer\n        }\n    }\n">>),
          Decl(<<"impl Drop for ">> \o name, nullable_drop_body(payload_type_name)),
          Decl(<<"impl core::fmt::Debug for ">> \o name,
               <<"fn fmt(&self, f: &mut core::fmt::Formatter<'_>) -> core::fmt::Result {\n        if self.pointer.is_null() {\n            f.write_str(\"">>
                   \o name \o <<"::">> \o null_tag
                   \o <<"\")\n        } else {\n            f.write_str(\"">> \o name
                   \o <<"::\")?;\n\n            unsafe { f.debug_tuple(\"">> \o non_null_tag
                   \o <<"\").field(&*">> \o extra_deref
                   \o <<"self.pointer).finish() }\n        }\n    }">>)>>)

\* ------------------------------------------------------- structs, add_type

\* The declaration of a struct of two or more fields (lines 1095-1110).
struct_body(name, fields, struct_id, types) ==
    LET derive == derive_str(types[struct_id], types, TRUE)
        line(i) ==
            <<INDENT, "pub ">> \o fields[i].label \o <<": ">>
                \o (IF fields[i].recursive THEN <<"*mut ">> ELSE <<>>)
                \o type_name(fields[i].id, types) \o <<",\n">>
    IN derive \o <<"\n#[repr(C)]\npub struct ">> \o name \o <<" {\n">>
           \o Flatten([i \in 1..Len(fields) |-> line(i)]) \o <<"}">>

\* A plausible slip: only one of the two unimplemented layouts stops the emitter.
is_unimplemented_partial(typ) == typ.kind = "NonNullableUnwrapped"

\* The tag unions add_type answers with todo!() (lines 154-156 and 174-176).
is_unimplemented(typ) == typ.kind \in {"NullableWrapped", "NonNullableUnwrapped"}

RECURSIVE add_type(_, _, _)
add_struct(name, architecture, fields, struct_id, types) ==
    CASE Len(fields) = 0 -> Returned(<<>>)
      [] Len(fields) = 1 -> add_type(architecture, fields[1].id, types)
      [] OTHER -> Returned(<<Decl(<<>>, struct_body(name, fields, struct_id, types))>>)

add_type(architecture, id, types) ==
    LET typ == types[id] IN
    CASE typ.kind = "Struct" -> add_struct(typ.name, architecture, typ.fields, id, types)
      [] typ.kind = "Enumeration" ->
            IF Len(typ.tags) = 1
            THEN Returned(<<Decl(<<>>, derive_str(typ, types, TRUE) \o <<"\nstruct ">>
                                           \o type_name(id, types) \o <<"();">>)>>)
            ELSE add_enumeration(typ.name, architecture, typ,
                                 [i \in 1..Len(typ.tags) |-> typ.tags[i].tag], types)
      [] typ.kind \in {"NonRecursive", "Recursive"} ->
            IF typ.tags # <<>>
            THEN add_tag_union(typ.kind = "Recursive", typ.name, architecture, id,
                               typ.tags, types)
            ELSE Returned(<<>>)
      [] typ.kind = "NullableUnwrapped" ->
            add_nullable_unwrapped(typ.name, architecture, id, typ.null_tag,
                                   typ.non_null_tag, typ.content, types)
      [] typ.kind = "TransparentWrapper" ->
            Returned(<<Decl(<<>>,
                derive_str(typ, types, ~has_enumeration(typ, types))
                    \o <<"\n#[repr(transparent)]\npub struct ">> \o typ.name \o <<"(pub ">>
                    \o type_name(typ.content, types) \o <<");">>)>>)
      [] is_unimplemented(typ) -> Unwound(<<>>, <<"not yet implemented">>)
      [] OTHER -> Returned(<<>>)

\* --------------------------------------------------------------- rendering

\* The #[cfg(...)] line of a declaration (lines 58-78).
gate_text(indent, architectures) ==
    IF Len(architectures) = 1
    THEN <<"#[cfg(target_arch = \"", arch_to_str(architectures[1]), "\")]">>
    ELSE <<"#[cfg(any(\n">>
            \o Join([i \in 1..Len(architectures) |->
                        <<indent, INDENT, "target_arch = \"", arch_to_str(architectures[i]),
                          "\"">>], <<",\n">>)
            \o <<"\n", indent, "))]">>

\* A plausible slip: the gate is written only for a declaration shared by
\* several architectures.
render_decl_nogate(indent, decl) ==
    (IF Len(decl.archs) = 1 THEN <<>>
     ELSE <<[kind |-> "gate", text |-> <<"\n", indent>> \o gate_text(indent, decl.archs)]>>)
    \o <<[kind |-> "decl", text |-> <<"\n", indent>> \o decl.body \o <<"\n">>]>>

\* What the loop body of lines 50-86 pushes for one declaration: the gate,
\* then the declaration.
render_decl(indent, decl) ==
    <<[kind |-> "gate", text |-> <<"\n", indent>> \o gate_text(indent, decl.archs)],
      [kind |-> "decl", text |-> <<"\n", indent>> \o decl.body \o <<"\n">>]>>

\* What the loop body of lines 37-92 pushes for one scope.
render_scope(entry) ==
    LET has_impl == entry.scope # <<>>
        indent == IF has_impl THEN INDENT ELSE ""
    IN (IF has_impl
        THEN <<[kind |-> "open", text |-> <<"\n">> \o entry.scope \o <<" {">>]>>
        ELSE <<>>)
       \o Flatten([i \in 1..Len(entry.decls) |-> render_decl(indent, entry.decls[i])])
       \o (IF has_impl THEN <<[kind |-> "close", text |-> <<"}\n">>]>> ELSE <<>>)

\* buf after the loop of lines 37-92, as the sequence of pieces pushed.
render(m) == Flatten([i \in 1..Len(m) |-> render_scope(m[i])])

\* The String emit returns.
Text(chunks) == Flatten([i \in 1..Len(chunks) |-> chunks[i].text])

\* -------------------------------------------------------------- registries

\* Three plain declarations: an enumeration, an enumeration of one tag, a
\* record of one field that unwraps to the first, a record whose size depends
\* on the pointer width, and a transparent wrapper.
PlainTypes ==
    <<Enumeration("Color", <<Tag("Red", 0), Tag("Green", 0), Tag("Blue", 0)>>),
      Enumeration("Only", <<Tag("Only", 0)>>),
      Struct("Wrapped", <<NonRec(<<"f", "1">>, 1)>>),
      Prim("RocStr"),
      Prim("F64"),
      Struct("Pair", <<NonRec(<<"f", "1", "0">>, 4), NonRec(<<"f", "2">>, 5),
                       NonRec(<<"f", "1">>, 1)>>),
      Ty("TransparentWrapper", <<"Name">>, <<>>, <<>>, 4)>>

\* An enumeration followed by a layout the emitter does not implement.
WrappedTypes ==
    <<Enumeration("Color", <<Tag("Red", 0), Tag("Green", 0), Tag("Blue", 0)>>),
      Ty("NullableWrapped", <<"Maybe">>, <<>>, <<>>, 0)>>

UnwrappedTypes ==
    <<Ty("NonNullableUnwrapped", <<"Single">>, <<>>, <<>>, 0),
      Enumeration("Color", <<Tag("Red", 0), Tag("Green", 0), Tag("Blue", 0)>>)>>

\* A recursive union of n tags: the first carries a node with a pointer back
\* to the union, the others have no payload.  Beside it an enumeration of one
\* tag, an enumeration of three and a non-recursive union that shares the name
\* of a tag without payload with the recursive one.
TreeTypes(n) ==
    <<Prim("I64"),
      Struct("Node", <<NonRec(<<"f", "0">>, 1), Rec(<<"f", "1">>, 3)>>),
      Ty("Recursive", <<"Tree">>,
         [i \in 1..n |-> IF i = 1 THEN Tag("Branch", 2)
                         ELSE [tag |-> <<"Leaf", ToString(i)>>, payload |-> 0]],
         <<>>, 0),
      Enumeration("Only", <<Tag("Only", 0)>>),
      Enumeration("Color", <<Tag("Red", 0), Tag("Green", 0), Tag("Blue", 0)>>),
      Ty("NonRecursive", <<"Flag">>,
         <<Tag("On", 1), [tag |-> <<"Leaf", "2">>, payload |-> 0]>>, <<>>, 0)>>

\* A list cell (Nil is the null pointer), a non-recursive union, and a
\* nullable-unwrapped union whose null tag is the first of its two tags.
ListTypes ==
    <<Prim("I64"),
      Struct("Cell", <<NonRec(<<"f", "0">>, 1), Rec(<<"f", "1">>, 3)>>),
      NullableUnwrappedTy("IntList", <<"N", "i", "l">>, <<"C", "o", "n", "s">>, 2, FALSE),
      Prim("RocStr"),
      Ty("NonRecursive", <<"Value">>, <<Tag("Text", 4), Tag("Int", 1), Tag("Unit", 0)>>,
         <<>>, 0),
      NullableUnwrappedTy("Maybe", <<"E", "m", "p", "t", "y">>, <<"F", "u", "l", "l">>, 1,
                          TRUE)>>

\* A union of more than 256 tags, the first with a payload of one byte.
WideTypes ==
    <<Prim("U8"),
      Ty("NonRecursive", <<"Wide">>,
         [i \in 1..257 |-> [tag |-> <<"T", ToString(i)>>,
                            payload |-> IF i = 1 THEN 1 ELSE 0]],
         <<>>, 0)>>

\* A union whose payload is a record declared in the order f10, f2, f1.
HolderTypes ==
    <<Prim("RocStr"),
      Prim("F64"),
      Prim("I64"),
      Struct("Triple", <<NonRec(<<"f", "1", "0">>, 1), NonRec(<<"f", "2">>, 2),
                         NonRec(<<"f", "1">>, 3)>>),
      Ty("TransparentWrapper", <<"Name">>, <<>>, <<>>, 1),
      Ty("NonRecursive", <<"Holder">>,
         <<Tag("Held", 4), Tag("Named", 5), Tag("Empty", 0)>>, <<>>, 0)>>

\* A record of one field used as a field of another record, a transparent
\* wrapper around an enumeration, and a record of no field.
NestedTypes ==
    <<Enumeration("Color", <<Tag("Red", 0), Tag("Green", 0), Tag("Blue", 0)>>),
      Struct("Wrapped", <<NonRec(<<"f", "0">>, 1)>>),
      Prim("I64"),
      Struct("Outer", <<NonRec(<<"f", "0">>, 2), NonRec(<<"f", "1">>, 3)>>),
      Ty("TransparentWrapper", <<"Shade">>, <<>>, <<>>, 1),
      Struct("Unit", <<>>)>>

\* A recursive union whose payload refers to the union through a transparent
\* wrapper around the record that holds the recursive pointer.
ChainTypes ==
    <<Prim("I64"),
      Struct("Cell", <<NonRec(<<"f", "0">>, 1), Rec(<<"f", "1">>, 4)>>),
      Ty("TransparentWrapper", <<"Link">>, <<>>, <<>>, 2),
      Ty("Recursive", <<"Chain">>, <<Tag("More", 3), Tag("End", 0)>>, <<>>, 0)>>

Registries ==
    <<PlainTypes, WrappedTypes, UnwrappedTypes, TreeTypes(4), TreeTypes(5), TreeTypes(8),
      TreeTypes(9), ListTypes, HolderTypes, NestedTypes, ChainTypes>>

\* The lists of architectures emit is run for: each architecture at most once.
ArchLists ==
    UNION {{a \in [1..n -> Architectures] : \A i, j \in 1..n : a[i] = a[j] => i = j} :
           n \in 1..MaxInputs}

\* The inputs of emit: (Architecture, Types) pairs.  Equal ids refer to the same
\* type on every architecture, so the pairs of one input carry the same registry.
InputLists ==
    {[i \in 1..Len(a) |-> <<a[i], r>>] : a \in ArchLists, r \in 1..Len(Registries)}

\* -------------------------------------------------------------------- emit

ArchOf(i) == inputs[i][1]
TypesOf(i) == Registries[inputs[i][2]]

\* No tag-union value is under observation.
ValIdle ==
    /\ shape = <<>>
    /\ val = <<>>
    /\ call = <<>>

\* align_of::<Self>() and size_of::<Self>(): a #[repr(C)] struct of one raw
\* pointer (lines 1209-1214)
SelfAlign(architecture) == PtrWidth(architecture)

\* size_of and align_of of roc_std::Storage, the reference-count cell: one
\* machine word
StorageSize(architecture) == PtrWidth(architecture)
StorageAlign(architecture) == PtrWidth(architecture)

\* The payload alignments and the architectures (one per pointer width) the
\* run-time model of the nullable-unwrapped type is explored for.
PayloadAligns == {1, 2, 4, 8, 16}
HeapArchs == {"X86_64", "X86_32"}
AllocSpan == 16

\* Where the read-only data of the source language lies.
StaticAddress == 4 * AllocBase

\* Nothing allocated, every handle's pointer null.
NoHeap ==
    [arch |-> "X86_64", align |-> 1, size |-> 1,
     allocs |-> 0, alloc_ptr |-> 0, alloc_size |-> 0, alloc_align |-> 0,
     payload_ptr |-> 0, storage_ptr |-> 0,
     pointer |-> [h \in 1..MaxHandles |-> 0],
     dealloc_ptr |-> 0, dealloc_align |-> 0]

\* crate::roc_alloc(size, align): the addresses it can return
roc_alloc(bytes, align) == {b \in AllocBase..(AllocBase + AllocSpan - 1) : b % align = 0}

RcIdle ==
    /\ heap = NoHeap
    /\ storage = "none"
    /\ hasPtr = FALSE
    /\ rc = 0
    /\ handles = [h \in 1..MaxHandles |-> "unused"]
    /\ deallocs = 0
    /\ payloadDrops = 0
    /\ movedOut = 0
    /\ rcWrites = 0

\* emit is called (lines 27-29).
Init ==
    /\ inputs \in InputLists
    /\ archIdx = 1
    /\ idIdx = 1
    /\ impls = <<>>
    /\ buf = <<>>
    /\ pc = "adding"
    /\ diag = <<>>
    /\ RcIdle
    /\ ValIdle

InLoop ==
    /\ pc = "adding"
    /\ archIdx <= Len(inputs)
    /\ idIdx <= Len(sorted_ids(TypesOf(archIdx)))

\* One iteration of the inner loop (lines 32-34) in which add_type returns.
AddType ==
    /\ InLoop
    /\ LET r == add_type(ArchOf(archIdx), sorted_ids(TypesOf(archIdx))[idIdx],
                         TypesOf(archIdx))
       IN /\ r.panic = <<>>
          /\ impls' = add_decls(impls, ArchOf(archIdx), r.decls)
    /\ idIdx' = idIdx + 1
    /\ UNCHANGED <<inputs, archIdx, buf, pc, diag, rcVars, valVars>>

\* One iteration of the inner loop in which add_type reaches a todo!(): the
\* panic unwinds emit, which returns nothing.
AddTypeUnwinds ==
    /\ InLoop
    /\ LET r == add_type(ArchOf(archIdx), sorted_ids(TypesOf(archIdx))[idIdx],
                         TypesOf(archIdx))
       IN /\ r.panic # <<>>
          /\ impls' = add_decls(impls, ArchOf(archIdx), r.decls)
          /\ diag' = r.panic
    /\ pc' = "panicked"
    /\ UNCHANGED <<inputs, archIdx, idIdx, buf, rcVars, valVars>>

\* The inner loop is over: the outer loop takes the next pair (line 31).
NextArchitecture ==
    /\ pc = "adding"
    /\ archIdx <= Len(inputs)
    /\ idIdx > Len(sorted_ids(TypesOf(archIdx)))
    /\ archIdx' = archIdx + 1
    /\ idIdx' = 1
    /\ UNCHANGED <<inputs, impls, buf, pc, diag, rcVars, valVars>>

\* The second loop (lines 37-92) and the return of buf (line 94).
Render ==
    /\ pc = "adding"
    /\ archIdx > Len(inputs)
    /\ buf' = render(impls)
    /\ pc' = "done"
    /\ UNCHANGED <<inputs, archIdx, idIdx, impls, diag, rcVars, valVars>>

Next == AddType \/ AddTypeUnwinds \/ NextArchitecture \/ Render

Spec == Init /\ [][Next]_vars

\* ------------------------------- the emitted nullable-unwrapped type at run time
\*
\* One value of the struct emitted by add_nullable_unwrapped and the handles
\* (the original and its clones) that hold its pointer.  storage is "null" for
\* the null tag, "readonly" for a payload in read-only storage, "rc" for a
\* payload allocated by the constructor and "freed" once roc_dealloc was called.

EmitIdle ==
    /\ inputs = <<>>
    /\ archIdx = 0
    /\ idIdx = 0
    /\ impls = <<>>
    /\ buf = <<>>
    /\ pc = "idle"
    /\ diag = <<>>

Live == {h \in 1..MaxHandles : handles[h] = "live"}
Unused == {h \in 1..MaxHandles : handles[h] = "unused"}

\* roc_std::Storage::new_reference_counted: one reference
new_reference_counted == [count |-> 1]

\* roc_std::Storage::increment_reference_count
increment_reference_count(n) == n + 1

\* roc_std::Storage::decrease: whether the last reference went away, and the
\* count to store when it did not
decrease(n) == [needs_dealloc |-> n - 1 = 0, count |-> n - 1]

\* fn storage(&self): None for the null pointer, else the cell before the payload
has_storage == storage # "null"

\* No value yet, or a payload the source language placed in read-only storage.
RcInit ==
    /\ EmitIdle
    /\ ValIdle
    /\ hasPtr \in BOOLEAN
    /\ storage \in {"none", "readonly"}
    /\ rc = 0
    /\ handles = [h \in 1..MaxHandles |-> IF storage = "readonly" /\ h = 1 THEN "live"
                                         ELSE "unused"]
    /\ deallocs = 0
    /\ payloadDrops = 0
    /\ movedOut = 0
    /\ rcWrites = 0
    /\ \E a \in HeapArchs, al \in PayloadAligns, n \in 1..2 :
            heap = [NoHeap EXCEPT !.arch = a, !.align = al, !.size = n * al,
                                  !.pointer[1] = IF storage = "readonly" THEN StaticAddress
                                                 ELSE 0]

\* fn storage(&self): the address of the cell it reads for the pointer p,
\* self.pointer.cast::<Cell<Storage>>().sub(1)
storage_cell(p, architecture) == p - StorageSize(architecture)

\* The addresses of the constructor (lines 1278-1300), given what roc_alloc
\* returned.
construct_heap(h, alloc_ptr) ==
    LET payload_align == h.align
        self_align == SelfAlign(h.arch)
        bytes == self_align + h.size
        payload_ptr == alloc_ptr + self_align
        storage_ptr == payload_ptr - StorageSize(h.arch)
    IN [h EXCEPT !.allocs = h.allocs + 1, !.alloc_ptr = alloc_ptr, !.alloc_size = bytes,
                 !.alloc_align = payload_align, !.payload_ptr = payload_ptr,
                 !.storage_ptr = storage_ptr, !.pointer[1] = payload_ptr]

\* pub fn <non_null_tag>(payload) -> Self
Construct ==
    /\ storage = "none"
    /\ storage' = "rc"
    /\ rc' = new_reference_counted.count
    /\ handles' = [handles EXCEPT ![1] = "live"]
    /\ \E alloc_ptr \in roc_alloc(SelfAlign(heap.arch) + heap.size, heap.align) :
            heap' = construct_heap(heap, alloc_ptr)
    /\ UNCHANGED <<hasPtr, deallocs, payloadDrops, movedOut, rcWrites, emitVars, valVars>>

\* pub const <null_tag>: Self
NullConst ==
    /\ storage = "none"
    /\ storage' = "null"
    /\ handles' = [handles EXCEPT ![1] = "live"]
    /\ UNCHANGED <<hasPtr, rc, deallocs, payloadDrops, movedOut, rcWrites, heap, emitVars,
                   valVars>>

\* A plausible slip: the pointer is copied and the count is left alone.
clone_impl_nocount(h, n) ==
    /\ handles' = [handles EXCEPT ![n] = "live"]
    /\ heap' = [heap EXCEPT !.pointer[n] = heap.pointer[h]]
    /\ UNCHANGED <<rc, rcWrites>>

\* A plausible slip: a deep clone, the payload is copied into an allocation
\* of its own.
clone_impl_deep(h, n) ==
    /\ handles' = [handles EXCEPT ![n] = "live"]
    /\ heap' = [heap EXCEPT !.pointer[n] = IF heap.pointer[h] = 0 THEN 0
                                           ELSE heap.pointer[h] + AllocSpan,
                            !.allocs = IF heap.pointer[h] = 0 THEN @ ELSE @ + 1]
    /\ UNCHANGED <<rc, rcWrites>>

\* fn clone(&self) -> Self: h is cloned into the new handle n
clone_impl(h, n) ==
    /\ handles' = [handles EXCEPT ![n] = "live"]
    /\ heap' = [heap EXCEPT !.pointer[n] = heap.pointer[h]]
    /\ IF has_storage /\ storage # "readonly"
       THEN /\ rc' = increment_reference_count(rc)
            /\ rcWrites' = rcWrites + 1
       ELSE UNCHANGED <<rc, rcWrites>>

\* The call of roc_dealloc in Drop (lines 1453-1462), for handle h.
dealloc_heap(hp, h) ==
    LET align == Max2(SelfAlign(hp.arch), StorageAlign(hp.arch))
        alloc_ptr == hp.pointer[h] - align
    IN [hp EXCEPT !.dealloc_ptr = alloc_ptr, !.dealloc_align = align]

\* A plausible slip: the read-only check is left out, the count of a read-only
\* cell is decreased and stored.
drop_impl_noreadonly(h, after) ==
    /\ handles' = [handles EXCEPT ![h] = after]
    /\ IF ~has_storage
       THEN UNCHANGED <<storage, rc, deallocs, payloadDrops, rcWrites, heap>>
       ELSE IF ~decrease(rc).needs_dealloc
       THEN /\ rc' = decrease(rc).count
            /\ rcWrites' = rcWrites + 1
            /\ UNCHANGED <<storage, deallocs, payloadDrops, heap>>
       ELSE /\ payloadDrops' = payloadDrops + 1
            /\ deallocs' = deallocs + 1
            /\ storage' = "freed"
            /\ heap' = dealloc_heap(heap, h)
            /\ UNCHANGED <<rc, rcWrites>>

\* fn drop(&mut self): h is dropped and becomes `after`
drop_impl(h, after) ==
    /\ handles' = [handles EXCEPT ![h] = after]
    /\ IF ~has_storage \/ storage = "readonly"
       THEN UNCHANGED <<storage, rc, deallocs, payloadDrops, rcWrites, heap>>
       ELSE IF ~decrease(rc).needs_dealloc
       THEN /\ rc' = decrease(rc).count
            /\ rcWrites' = rcWrites + 1
            /\ UNCHANGED <<storage, deallocs, payloadDrops, heap>>
       ELSE \* self.pointer is not null here: the payload is taken and dropped,
            \* then the allocation is handed to roc_dealloc
            /\ payloadDrops' = payloadDrops + 1
            /\ deallocs' = deallocs + 1
            /\ storage' = "freed"
            /\ heap' = dealloc_heap(heap, h)
            /\ UNCHANGED <<rc, rcWrites>>

Clone(h) ==
    /\ h \in Live
    /\ storage # "freed"
    /\ Unused # {}
    /\ LET n == CHOOSE n \in Unused : \A m \in Unused : n <= m
       IN clone_impl(h, n)
    /\ UNCHANGED <<storage, hasPtr, deallocs, payloadDrops, movedOut, emitVars, valVars>>

Drop(h) ==
    /\ h \in Live
    /\ storage # "freed"
    /\ drop_impl(h, "dropped")
    /\ UNCHANGED <<hasPtr, movedOut, emitVars, valVars>>

\* pub unsafe fn into_<non_null_tag>(self): the payload is read out of the
\* cell, then core::mem::drop::<Self>(self) runs Drop, then the payload is returned.
\* The caller has checked variant(), so the pointer is not null.
Into(h) ==
    /\ h \in Live
    /\ storage \in {"rc", "readonly"}
    /\ movedOut' = movedOut + 1
    /\ drop_impl(h, "moved")
    /\ UNCHANGED <<hasPtr, emitVars, valVars>>

RcNext ==
    \/ Construct
    \/ NullConst
    \/ \E h \in 1..MaxHandles : Clone(h)
    \/ \E h \in 1..MaxHandles : Drop(h)
    \/ \E h \in 1..MaxHandles : Into(h)

RcSpec == RcInit /\ [][RcNext]_vars

\* ------------------------------- the emitted tag unions at run time
\*
\* One value of an emitted NonRecursive or Recursive union.  A payload slot is
\* the sequence of the payload's field values in declared order (one value
\* for a payload that is not a struct); a pointer is a number, and what lies
\* behind a pointer p is the value Deref(p).  mem holds the bytes of a
\* NonRecursive value outside the payload slot; carrier holds the bits of the
\* field that recursive_pointer_field names.

\* Largest carrier value a Recursive value starts from.
MaxCarrier == 31

Deref(p) == 1000 + p

RECURSIVE BitAnd(_, _)
BitAnd(a, b) ==
    IF a = 0 \/ b = 0 THEN 0
    ELSE (a % 2) * (b % 2) + 2 * BitAnd(a \div 2, b \div 2)

\* a | b
BitOr(a, b) == a + b - BitAnd(a, b)

\* a & !mask
BitClear(a, mask) == a - BitAnd(a, mask)

\* A recursive union whose second tag has the pointer-bearing payload that
\* holds the carrier.
ExprTypes ==
    <<Prim("RocStr"),
      Struct("Pair", <<Rec(<<"f", "0">>, 3), Rec(<<"f", "1">>, 3)>>),
      Ty("Recursive", <<"Expr">>, <<Tag("Lit", 1), Tag("Add", 2)>>, <<>>, 0)>>

ValRegistries == <<ListTypes, TreeTypes(4), WideTypes, HolderTypes, ExprTypes>>

\* The unions add_tag_union emits code for.
Shapes ==
    {sh \in UNION {[arch : Architectures, reg : {r}, id : 1..Len(ValRegistries[r])] :
                        r \in 1..Len(ValRegistries)} :
        /\ LET t == ValRegistries[sh.reg][sh.id]
           IN \/ t.kind = "NonRecursive"
              \/ /\ t.kind = "Recursive"
                 /\ Len(t.tags) <= max_pointer_tagged_variants(sh.arch)}

STypes == ValRegistries[shape.reg]
SUnion == STypes[shape.id]
STags == SUnion.tags
IsRecursive == SUnion.kind = "Recursive"
SMask == tagged_pointer_bitmask(shape.arch)
SOffset == discriminant_offset(STags, STypes, shape.arch)
SSize == size(SUnion, STypes, shape.arch)

\* size_of::<variant_Name>(): the enumeration emitter's #[repr(u{8 * tag_bytes})]
SWidth == discriminant_size(Len(STags))

\* The tag and the field that recursive_pointer_field names, 0 when there is none.
CarrierTag ==
    LET has(i) == STags[i].payload # 0 /\ FirstRecursiveField(STypes[STags[i].payload]) # 0
    IN IF IsRecursive /\ \E i \in 1..Len(STags) : has(i)
       THEN CHOOSE i \in 1..Len(STags) : has(i) /\ \A j \in 1..(i - 1) : ~has(j)
       ELSE 0

CarrierField ==
    IF CarrierTag = 0 THEN 0 ELSE FirstRecursiveField(STypes[STags[CarrierTag].payload])

\* Writing the carrier writes the field of the slot it lies in.
with_carrier(v, c) ==
    [v EXCEPT !.carrier = c,
              !.slot = IF v.built # 0 /\ v.built = CarrierTag
                       THEN [v.slot EXCEPT ![CarrierField] = c]
                       ELSE v.slot]

\* pub fn variant(&self): the ordinal of the discriminant it returns
variant(v) ==
    IF IsRecursive
    THEN \* (self.{recursive_pointer_field} as u8) & {bitmask}
         BitAnd(v.carrier % 256, SMask)
    ELSE \* *bytes.as_ptr().add({discriminant_offset})
         v.mem[SOffset + 1]

\* The bytes of mem after a write of the discriminant d, SWidth bytes wide
\* (little-endian), at byte `at`; bytes beyond the value are not part of it.
write_discriminant(mem, at, d) ==
    [i \in 1..Len(mem) |->
        IF i = at + 1 THEN d % 256
        ELSE IF SWidth = 2 /\ i = at + 2 THEN d \div 256
        ELSE mem[i]]

\* fn set_discriminant(&mut self, discriminant): the values the call can leave
set_discriminant(v, d) ==
    IF IsRecursive
    THEN \* untagged = carrier & !bitmask; tagged = untagged | self.variant()
         LET untagged == BitClear(v.carrier, SMask)
             tagged == BitOr(untagged, variant(v))
         IN {with_carrier(v, tagged)}
    ELSE \* discriminant_ptr is a *mut variant_Name: add() counts in units of
         \* size_of::<variant_Name>()
         LET at == SOffset * SWidth
             written == [v EXCEPT !.mem = write_discriminant(v.mem, at, d)]
         IN IF at + SWidth <= Len(v.mem) THEN {written}
            ELSE \* a write past the end of the value: undefined behaviour
                 {written, v}

PayloadTags == {t \in 1..Len(STags) : STags[t].payload # 0}
PayloadOf(t) == STypes[STags[t].payload]

\* The number of arguments of the constructor of tag t.
Arity(t) == IF PayloadOf(t).kind = "Struct" THEN Len(PayloadOf(t).fields) ELSE 1

\* Argument lists: distinct aligned values, in two orders.
ArgLists(n) == {[i \in 1..n |-> 8 * i], [i \in 1..n |-> 8 * (n + 1 - i)]}

\* let payload = {args_to_payload}: field i of the record is given arg{i-1};
\* a transparent wrapper and any other payload hold the one argument
args_to_payload(t, args) == args

Digits == <<"0", "1", "2", "3", "4", "5", "6", "7", "8", "9">>

\* str::parse::<u64> of a sequence of decimal digits
RECURSIVE ParseU64(_)
ParseU64(chars) ==
    IF Len(chars) = 0 THEN 0
    ELSE 10 * ParseU64(SubSeq(chars, 1, Len(chars) - 1))
            + (IndexOf(Digits, chars[Len(chars)]) - 1)

\* field.label()[1..].parse::<u64>().unwrap(): "f12" gives 12
LabelNumber(field) == ParseU64(SubSeq(field.label, 2, Len(field.label)))

\* sorted_fields (lines 535-546): the positions of the fields, by increasing
\* label number (a stable sort).  The emitter computes it and then builds the
\* arguments, the record and the returned tuple from `fields`.
sorted_fields(fields) ==
    LET before(i, j) == \/ LabelNumber(fields[i]) < LabelNumber(fields[j])
                        \/ LabelNumber(fields[i]) = LabelNumber(fields[j]) /\ i < j
    IN [k \in 1..Len(fields) |->
            CHOOSE i \in 1..Len(fields) :
                Cardinality({j \in 1..Len(fields) : before(j, i)}) = k - 1]

\* {owned_ret}: what into_ returns, computed from the slot
owned_ret(t, slot) ==
    IF PayloadOf(t).kind = "Struct"
    THEN [i \in 1..Len(slot) |->
            IF PayloadOf(t).fields[i].recursive
            THEN \* *((payload.{label} as usize & !{bitmask}) as *mut T)
                 Deref(BitClear(slot[i], SMask))
            ELSE slot[i]]
    ELSE slot

Fresh(c, filler) ==
    [carrier |-> c,
     mem |-> IF IsRecursive THEN <<>> ELSE [i \in 1..SSize |-> filler],
     slot |-> <<>>,
     built |-> 0]

\* drops lists the tags whose payload had its destructor run; taken tells
\* whether the payload was taken out of its ManuallyDrop cell; refers tells
\* what the returned references point into.
NoCall ==
    [op |-> "none", d |-> 0, args |-> <<>>, ret |-> <<>>, before |-> <<>>, drops |-> <<>>,
     taken |-> FALSE, refers |-> "nothing"]

ValInit ==
    /\ EmitIdle
    /\ RcIdle
    /\ shape \in Shapes
    /\ \E c \in 0..MaxCarrier, filler \in {0, 255} :
            /\ IsRecursive => filler = 0
            /\ ~IsRecursive => c = 0
            /\ val = Fresh(c, filler)
    /\ call = NoCall

\* The discriminants tried: the first two and the last.
Ordinals == {d \in {0, 1, Len(STags) - 1} : d < Len(STags)}

\* set_discriminant(d) on the value as it is
SetDiscriminant(d) ==
    /\ call.op \in {"none", "set", "ctor"}
    /\ d \in Ordinals
    /\ val' \in set_discriminant(val, d)
    /\ call' = [NoCall EXCEPT !.op = "set", !.d = d, !.before = val]
    /\ UNCHANGED <<shape, emitVars, rcVars>>

\* pub fn {tag_name}({payload_args}) -> Self
ConstructTag(t, args) ==
    /\ call.op = "none"
    /\ t \in PayloadTags
    /\ args \in ArgLists(Arity(t))
    /\ LET payload == args_to_payload(t, args)
           answer == [val EXCEPT !.built = t, !.slot = payload,
                                 !.carrier = IF t = CarrierTag THEN payload[CarrierField]
                                             ELSE val.carrier]
       IN val' \in set_discriminant(answer, t - 1)
    /\ call' = [NoCall EXCEPT !.op = "ctor", !.d = t - 1, !.args = args, !.before = val]
    /\ UNCHANGED <<shape, emitVars, rcVars>>

\* Whether the payload of tag t is pointer-bearing: its slot is a
\* core::mem::ManuallyDrop<..> (lines 311-322).
IsManuallyDrop(t) == STags[t].payload # 0 /\ has_pointer(PayloadOf(t), STypes)

\* impl Drop: fn drop(&mut self) matches on self.variant(); the arm of a tag
\* with a pointer-bearing payload is ManuallyDrop::drop(&mut self.{tag_name}),
\* every other arm is {}.  The answer is the set of the lists of slots the
\* destructor can run on; a discriminant that is no tag's is undefined
\* behaviour of the transmute in variant().
union_drop(v) ==
    LET arm == variant(v) + 1
    IN IF arm \in 1..Len(STags)
       THEN {IF IsManuallyDrop(arm) THEN <<arm>> ELSE <<>>}
       ELSE {<<>>} \cup {<<t>> : t \in {u \in 1..Len(STags) : IsManuallyDrop(u)}}

\* pub unsafe fn into_{tag_name}(self): called on the value its constructor
\* returned.  debug_assert_eq! panics in a debug build when variant() is
\* another tag's; a release build goes on.  The payload is read out of the
\* slot (ManuallyDrop::take for a pointer-bearing one), and `self`, which the
\* function owns, is dropped when it returns.
IntoTag ==
    /\ call.op = "ctor"
    /\ \/ /\ variant(val) # val.built - 1
          /\ call' = [call EXCEPT !.op = "panic"]
       \/ \E dropped \in union_drop(val) :
            call' = [call EXCEPT !.op = "into", !.ret = owned_ret(val.built, val.slot),
                                 !.drops = dropped]
    /\ UNCHANGED <<shape, val, emitVars, rcVars>>

\* pub unsafe fn as_{tag_name}(&self): called on the value its constructor
\* returned.  `let payload = {get_payload};` is the statement into_ has:
\* ManuallyDrop::take(&mut self.{tag_name}) for a pointer-bearing payload, a
\* copy of self.{tag_name} otherwise.  {borrowed_ret} borrows from that local
\* `payload`, which goes out of scope, and is dropped, when the function
\* returns.
AsTag ==
    /\ call.op = "ctor"
    /\ \/ /\ variant(val) # val.built - 1
          /\ call' = [call EXCEPT !.op = "panic"]
       \/ call' = [call EXCEPT !.op = "as", !.ret = owned_ret(val.built, val.slot),
                               !.before = val,
                               !.taken = IsManuallyDrop(val.built),
                               !.refers = "local payload",
                               !.drops = IF IsManuallyDrop(val.built) THEN <<val.built>>
                                         ELSE <<>>]
    /\ UNCHANGED <<shape, val, emitVars, rcVars>>

\* The value its constructor returned goes out of scope.
DropValue ==
    /\ call.op = "ctor"
    /\ \E dropped \in union_drop(val) : call' = [call EXCEPT !.op = "drop", !.drops = dropped]
    /\ UNCHANGED <<shape, val, emitVars, rcVars>>

\* The byte offset of field i of a #[repr(C)] struct with the fields in the
\* declared order, a Recursive field being a pointer.
field_offset(typ, i, types, architecture) ==
    LET sz(j) == IF typ.fields[j].recursive THEN PtrWidth(architecture)
                 ELSE size(types[typ.fields[j].id], types, architecture)
        al(j) == IF typ.fields[j].recursive THEN PtrWidth(architecture)
                 ELSE alignment(types[typ.fields[j].id], types, architecture)
        end[j \in 0..i] == IF j = 0 THEN 0 ELSE AlignUp(end[j - 1], al(j)) + sz(j)
    IN AlignUp(end[i - 1], al(i))

\* Where the field that recursive_pointer_field names lies in the union.
CarrierOffset == field_offset(STypes[STags[CarrierTag].payload], CarrierField, STypes, shape.arch)

\* The pointer-wide little-endian number held by the bytes at offset `at`.
read_usize(bytes, at) ==
    LET byte(j) == IF at + j + 1 <= Len(bytes) THEN bytes[at + j + 1] ELSE 0
        acc[j \in 0..PtrWidth(shape.arch)] ==
            IF j = 0 THEN 0 ELSE acc[j - 1] * 256 + byte(PtrWidth(shape.arch) - j)
    IN acc[PtrWidth(shape.arch)]

NoPayloadTags == {t \in 1..Len(STags) : STags[t].payload = 0}

\* pub const {tag_name}: Self: the bytes [0; size_of::<Name>()] with
\* bytes[{discriminant_offset}] = variant_Name::{tag_name} as u8
tag_constant_bytes(t) ==
    [i \in 1..SSize |-> IF i = SOffset + 1 THEN (t - 1) % 256 ELSE 0]

\* transmute::<[u8; size_of::<Name>()], Name>(bytes)
tag_constant(t) ==
    LET bytes == tag_constant_bytes(t)
    IN [carrier |-> IF CarrierTag = 0 THEN 0 ELSE read_usize(bytes, CarrierOffset),
        mem |-> IF IsRecursive THEN <<>> ELSE bytes,
        slot |-> <<>>,
        built |-> 0]

\* Name::{tag_name}, the constant of a tag without payload
ConstTag(t) ==
    /\ call.op = "none"
    /\ t \in NoPayloadTags
    /\ val' = tag_constant(t)
    /\ call' = [NoCall EXCEPT !.op = "const", !.d = t - 1, !.ret = tag_constant_bytes(t)]
    /\ UNCHANGED <<shape, emitVars, rcVars>>

ValNext ==
    \/ \E d \in 0..256 : SetDiscriminant(d)
    \/ \E t \in PayloadTags : \E args \in ArgLists(Arity(t)) : ConstructTag(t, args)
    \/ IntoTag
    \/ \E t \in NoPayloadTags : ConstTag(t)
    \/ DropValue
    \/ AsTag

ValSpec == ValInit /\ [][ValNext]_vars

\* ------------------------------------------------- reading the store and buf

InputArchs == {inputs[i][1] : i \in 1..Len(inputs)}

GateNames == {"x86_64", "x86", "aarch64", "arm", "wasm32"}

IsGateName(t) == t \in GateNames

\* The architectures a gate names, in the order it names them.
GateArchs(chunk) == SelectSeq(chunk.text, IsGateName)

\* The scope a piece of buf lies in: the impl opened last and not yet closed.
ChunkScope(chunks, i) ==
    LET marks == {j \in 1..(i - 1) : chunks[j].kind \in {"open", "close"}}
    IN IF marks = {} THEN <<>>
       ELSE LET j == CHOOSE j \in marks : \A k \in marks : k <= j
            IN IF chunks[j].kind = "close" THEN <<>>
               ELSE SubSeq(chunks[j].text, 2, Len(chunks[j].text) - 1)

\* The declaration a "decl" piece carries: what lies between the indent and
\* the final newline.
DeclBody(chunk) == SubSeq(chunk.text, 3, Len(chunk.text) - 1)

DeclChunks(chunks) == {i \in 1..Len(chunks) : chunks[i].kind = "decl"}

\* Every add_decl call the k-th input pair causes.
AddedBy(k) ==
    UNION {Range(add_type(ArchOf(k), id, TypesOf(k)).decls) : id \in 1..Len(TypesOf(k))}

Scopes(m) == [i \in 1..Len(m) |-> m[i].scope]
Bodies(entry) == [i \in 1..Len(entry.decls) |-> entry.decls[i].body]

NoRepeat(s) == \A i, j \in 1..Len(s) : s[i] = s[j] => i = j

\* s without the later occurrences of its elements.
Dedup(s) ==
    LET keep == {i \in 1..Len(s) : \A j \in 1..(i - 1) : s[j] # s[i]}
    IN [n \in 1..Cardinality(keep) |->
            s[CHOOSE i \in keep : Cardinality({j \in keep : j < i}) = n - 1]]

\* ------------------------------------------------------------------ claims

\* C1. Merge correctness: when emit has run on two (or more) architectures and
\* both added the same body to the same scope, the output holds exactly one copy
\* of that body in that scope, and the gate before it names both architectures,
\* the one that comes first in the input list first.
C1_MergeCorrectness ==
    pc = "done" =>
        \A k, l \in 1..Len(inputs) :
            k < l =>
                \A d \in AddedBy(k) \cap AddedBy(l) :
                    LET copies == {i \in DeclChunks(buf) :
                                      /\ ChunkScope(buf, i) = d.scope
                                      /\ DeclBody(buf[i]) = d.body}
                    IN /\ Cardinality(copies) = 1
                       /\ \A i \in copies :
                            /\ i > 1
                            /\ buf[i - 1].kind = "gate"
                            /\ LET g == GateArchs(buf[i - 1])
                               IN /\ arch_to_str(ArchOf(k)) \in Range(g)
                                  /\ arch_to_str(ArchOf(l)) \in Range(g)
                                  /\ \A p, q \in 1..Len(g) :
                                        (g[p] = arch_to_str(ArchOf(k))
                                            /\ g[q] = arch_to_str(ArchOf(l))) => p < q

\* Two architectures were emitted, some body is shared by both and some body
\* is not.
C1_Witness ==
    /\ pc = "done"
    /\ Len(inputs) = 2
    /\ AddedBy(1) \cap AddedBy(2) # {}
    /\ AddedBy(1) \ AddedBy(2) # {}
    /\ \E i \in 1..Len(buf) :
            /\ buf[i].kind = "gate"
            /\ GateArchs(buf[i]) = <<arch_to_str(ArchOf(1)), arch_to_str(ArchOf(2))>>

\* C2. The architectures of every (scope, body) entry are a set: each
\* architecture is listed at most once for a body, in the store and in its gate.
C2_ArchitecturesAreASet ==
    /\ \A s \in 1..Len(impls) :
            \A b \in 1..Len(impls[s].decls) : NoRepeat(impls[s].decls[b].archs)
    /\ \A i \in 1..Len(buf) : buf[i].kind = "gate" => NoRepeat(GateArchs(buf[i]))

\* C3. Gate totality: every body of the store has at least one architecture,
\* all of them input architectures; in the output every declaration comes
\* right after one gate, there are as many gates as declarations, and a gate
\* names input architectures only, at least one.
C3_GateTotality ==
    /\ \A s \in 1..Len(impls) :
            \A b \in 1..Len(impls[s].decls) :
                /\ impls[s].decls[b].archs # <<>>
                /\ Range(impls[s].decls[b].archs) \subseteq InputArchs
    /\ \A i \in DeclChunks(buf) :
            /\ i > 1
            /\ buf[i - 1].kind = "gate"
            /\ GateArchs(buf[i - 1]) # <<>>
            /\ Range(GateArchs(buf[i - 1])) \subseteq {arch_to_str(a) : a \in InputArchs}
    /\ \A i \in 1..Len(buf) :
            buf[i].kind = "gate" => (i < Len(buf) /\ buf[i + 1].kind = "decl")

\* Output with a declaration of one architecture and one shared by two, inside
\* an impl block.
C3_Witness ==
    /\ pc = "done"
    /\ \E i, j \in DeclChunks(buf) :
            /\ Len(GateArchs(buf[i - 1])) = 1
            /\ Len(GateArchs(buf[j - 1])) = 2
            /\ ChunkScope(buf, j) # <<>>

\* C4. Order preservation: a call of add_type leaves every scope and every
\* body where it was and puts the scopes and bodies it adds for the first time
\* behind them, in the order of their first insertion; the output lists the
\* declarations in the order of the store.
C4_Step ==
    \/ /\ impls' = impls
       /\ pc' = "done" =>
            [i \in 1..Cardinality(DeclChunks(buf')) |->
                DeclBody(buf'[CHOOSE c \in DeclChunks(buf') :
                                Cardinality({e \in DeclChunks(buf') : e < c}) = i - 1])]
            = Flatten([s \in 1..Len(impls) |-> Bodies(impls[s])])
    \/ /\ InLoop
       /\ LET r == add_type(ArchOf(archIdx), sorted_ids(TypesOf(archIdx))[idIdx],
                            TypesOf(archIdx))
              added(scope) ==
                  LET of == SelectSeq(r.decls, LAMBDA d : d.scope = scope)
                  IN [i \in 1..Len(of) |-> of[i].body]
          IN /\ Len(impls) <= Len(impls')
             /\ \A s \in 1..Len(impls) :
                    /\ impls'[s].scope = impls[s].scope
                    /\ Len(impls[s].decls) <= Len(impls'[s].decls)
                    /\ \A b \in 1..Len(impls[s].decls) :
                            impls'[s].decls[b].body = impls[s].decls[b].body
             /\ Scopes(impls') =
                    Dedup(Scopes(impls) \o [i \in 1..Len(r.decls) |-> r.decls[i].scope])
             /\ \A s \in 1..Len(impls') :
                    Bodies(impls'[s]) =
                        Dedup((IF s <= Len(impls) THEN Bodies(impls[s]) ELSE <<>>)
                                  \o added(impls'[s].scope))

C4_OrderPreservation == [][C4_Step]_vars

\* A body was added again (it has several architectures) and bodies inserted
\* after it are still behind it.
C4_Witness ==
    \E s \in 1..Len(impls) :
        /\ Len(impls[s].decls) >= 3
        /\ Len(impls[s].decls[1].archs) >= 2
        /\ Len(impls[s].decls[3].archs) = 1

\* C6. emit is all-or-nothing: when a registry of the input holds a
\* NullableWrapped or NonNullableUnwrapped union, emit never returns and no
\* output text exists, whatever was added to the store before the panic.
HasUnimplemented ==
    \E k \in 1..Len(inputs) :
        \E id \in 1..Len(TypesOf(k)) :
            TypesOf(k)[id].kind \in {"NullableWrapped", "NonNullableUnwrapped"}

C6_AllOrNothing ==
    /\ HasUnimplemented => (pc # "done" /\ buf = <<>>)
    /\ pc = "panicked" => buf = <<>>

\* emit panicked on an unimplemented union after it had added declarations.
C6_Witness ==
    /\ HasUnimplemented
    /\ pc = "panicked"
    /\ impls # <<>>
    /\ buf = <<>>

\* C7. Pointer-tagging capacity: add_type of a non-empty Recursive union of N
\* tags panics exactly when N exceeds 8 on X86_64 and Aarch64, 4 on X86_32,
\* Aarch32 and Wasm32; when it returns, variant() masks with 0b111 (64-bit) or
\* 0b11 (32-bit); one architecture over capacity keeps emit from returning.
Capacity(architecture) == IF architecture \in {"X86_64", "Aarch64"} THEN 8 ELSE 4

MaskText(architecture) ==
    IF architecture \in {"X86_64", "Aarch64"} THEN <<"0b", "1", "1", "1">>
    ELSE <<"0b", "1", "1">>

IsTooManyTags(text) == Len(text) > 1 /\ text[1] = "not yet implemented: Support "

\* The input pairs and ids whose add_type call has returned.
Processed ==
    {ki \in UNION {{<<k, i>> : i \in 1..Len(TypesOf(k))} : k \in 1..Len(inputs)} :
        LET k == ki[1]
            i == ki[2]
        IN \/ pc = "done"
           \/ k < archIdx
           \/ k = archIdx /\ i < idIdx}

C7_TaggingCapacity ==
    /\ \A ki \in Processed :
            LET t == TypesOf(ki[1])[sorted_ids(TypesOf(ki[1]))[ki[2]]]
                a == ArchOf(ki[1])
            IN (t.kind = "Recursive" /\ t.tags # <<>>) =>
                    /\ Len(t.tags) <= Capacity(a)
                    /\ \E s \in 1..Len(impls) :
                            /\ impls[s].scope = <<"impl ">> \o t.name
                            /\ \E b \in 1..Len(impls[s].decls) :
                                    /\ a \in Range(impls[s].decls[b].archs)
                                    /\ impls[s].decls[b].body =
                                            recursive_variant_body(
                                                discriminant_name_of(t.name),
                                                recursive_pointer_field_of(TRUE, t.tags,
                                                                           TypesOf(ki[1])),
                                                MaskText(a))
    /\ (pc = "panicked" /\ IsTooManyTags(diag)) =>
            LET t == TypesOf(archIdx)[sorted_ids(TypesOf(archIdx))[idIdx]]
            IN /\ t.kind = "Recursive"
               /\ Len(t.tags) > Capacity(ArchOf(archIdx))
               /\ diag = <<"not yet implemented: Support ", ToString(Len(t.tags)),
                           " tags in a recursive tag union on architecture ",
                           ArchOf(archIdx)>>
    /\ (\E k \in 1..Len(inputs) :
            \E id \in 1..Len(TypesOf(k)) :
                /\ TypesOf(k)[id].kind = "Recursive"
                /\ Len(TypesOf(k)[id].tags) > Capacity(ArchOf(k)))
        => (pc # "done" /\ buf = <<>>)

\* The union fitted the first (64-bit) architecture and exceeded the second.
C7_Witness ==
    /\ pc = "panicked"
    /\ IsTooManyTags(diag)
    /\ archIdx = 2
    /\ <<1, 3>> \in Processed
    /\ Len(TypesOf(1)[3].tags) > 4

\* C8. Refcount law: for a value in reference-counted storage the stored count
\* is the number of live handles, the allocation is handed to dealloc exactly
\* once, and that happens at the drop of the last live handle: no dealloc
\* while a handle lives, one dealloc once none does.
C8_RefcountLaw ==
    storage \in {"rc", "freed"} =>
        /\ deallocs = (IF Live = {} THEN 1 ELSE 0)
        /\ storage = "rc" <=> Live # {}
        /\ storage = "rc" => rc = Cardinality(Live)

\* The value was cloned, every handle was released, and dealloc ran.
C8_Witness ==
    /\ storage = "freed"
    /\ deallocs = 1
    /\ Cardinality({h \in 1..MaxHandles : handles[h] = "dropped"}) >= 2

\* C9. Read-only storage and the null value are inert: no clone or drop of such
\* a value writes the reference count, drops the payload or calls dealloc.
C9_ReadonlyAndNullInert ==
    storage \in {"readonly", "null"} =>
        /\ rcWrites = 0
        /\ rc = 0
        /\ payloadDrops = 0
        /\ deallocs = 0

\* A read-only value that was cloned and of which a handle was dropped.
C9_Witness ==
    /\ storage = "readonly"
    /\ \E h \in 1..MaxHandles : handles[h] = "dropped"
    /\ Cardinality(Live) >= 2

\* C10. With a pointer-bearing payload, the destructor of the payload runs at
\* most once, and never on a payload that was moved out by into_ or that a
\* live handle still reaches.
C10_PayloadDestructor ==
    hasPtr =>
        /\ payloadDrops <= 1
        /\ payloadDrops >= 1 => (movedOut = 0 /\ Live = {})

\* C11. In a Recursive union, right after set_discriminant(d), called directly
\* or by the constructor of tag d, variant() returns d, and the call leaves
\* the carrier's bits outside the mask as they were.
C11_SetDiscriminantTagsCarrier ==
    (IsRecursive /\ call.op \in {"set", "ctor"}) =>
        /\ variant(val) = call.d
        /\ call.op = "set" =>
                BitClear(val.carrier, SMask) = BitClear(call.before.carrier, SMask)

\* C12. In a NonRecursive union, after set_discriminant(d) the byte at
\* discriminant_offset is the ordinal of d, every other byte of the value is
\* as it was, and variant() returns d, whatever the width of the discriminant.
C12_DiscriminantStability ==
    (~IsRecursive /\ call.op = "set") =>
        /\ val.mem[SOffset + 1] = call.d
        /\ \A i \in 1..Len(val.mem) : i # SOffset + 1 => val.mem[i] = call.before.mem[i]
        /\ variant(val) = call.d

\* C13. Round trip: into_T called on the value T's constructor returned gives
\* back the constructor's arguments, each in its position.
C13_RoundTrip ==
    call.op \in {"into", "panic"} =>
        /\ call.op = "into"
        /\ call.ret = call.args

\* C14. Numeric ordering of flattened payload arguments: for a payload record
\* the k-th constructor argument initialises the field with the k-th smallest
\* label number, and the k-th component into_ returns is read from that field,
\* whatever the declared order of the fields.
C14_NumericArgumentOrder ==
    (call.op \in {"ctor", "into"} /\ PayloadOf(val.built).kind = "Struct") =>
        LET order == sorted_fields(PayloadOf(val.built).fields)
        IN /\ \A k \in 1..Len(order) : val.slot[order[k]] = call.args[k]
           /\ call.op = "into" =>
                \A k \in 1..Len(order) :
                    call.ret[k] = owned_ret(val.built, val.slot)[order[k]]

\* Whether pat occurs in s as a run of consecutive atoms.
HasRun(s, pat) ==
    \E i \in 0..(Len(s) - Len(pat)) : SubSeq(s, i + 1, i + Len(pat)) = pat

\* The atoms after which a top-level declaration names the type it declares.
TypeIntroducers ==
    {"\n#[repr(C)]\npub struct ", "#[repr(C)]\npub union ", ")]\npub enum ", "\nstruct ",
     "\n#[repr(transparent)]\npub struct ", ")]\npub struct "}

DeclaresType(body, name) ==
    \E i \in 1..Len(body) :
        body[i] \in TypeIntroducers /\ SubSeq(body, i + 1, i + Len(name)) = name

\* The (scope, body) entries of the store that are gated for architecture a.
EntriesOn(a) ==
    UNION {{[scope |-> impls[s].scope, body |-> impls[s].decls[b].body] :
                b \in {b \in 1..Len(impls[s].decls) : a \in Range(impls[s].decls[b].archs)}} :
            s \in 1..Len(impls)}

\* The declaration of the type called name, for architecture a.
TypeDecls(a, name) == {e \in EntriesOn(a) : e.scope = <<>> /\ DeclaresType(e.body, name)}

DeriveAtoms(trait) ==
    CASE trait = "Clone" -> {"#[derive(Clone, "}
      [] trait = "Copy" -> {"Copy, "}
      [] trait = "Debug" -> {"Debug, "}
      [] trait = "Default" -> {"Default, "}
      [] trait \in {"Eq", "Ord", "Hash"} -> {"Eq, Ord, Hash, ", ", Eq, Ord, Hash"}
      [] trait \in {"PartialEq", "PartialOrd"} ->
            {"PartialEq, PartialOrd)]", "#[repr(C)]\n#[derive(PartialEq, PartialOrd"}

ImplAtom(trait) ==
    CASE trait = "Hash" -> "impl core::hash::Hash for "
      [] trait = "Debug" -> "impl core::fmt::Debug for "
      [] trait = "Clone" -> "impl Clone for "
      [] trait = "Copy" -> "impl Copy for "
      [] trait = "Default" -> "impl Default for "
      [] trait = "Eq" -> "impl Eq for "
      [] trait = "Ord" -> "impl Ord for "
      [] trait = "PartialEq" -> "impl PartialEq for "
      [] trait = "PartialOrd" -> "impl PartialOrd for "

\* Whether the output for architecture a gives the type the trait, by a
\* derive on its declaration or by an impl block.
Provides(a, name, trait) ==
    \/ \E e \in TypeDecls(a, name) : DeriveAtoms(trait) \cap Range(e.body) # {}
    \/ \E e \in EntriesOn(a) : HasRun(e.scope, <<ImplAtom(trait)>> \o name)

\* The types add_type declares something for.
IsDeclared(t) ==
    \/ t.kind = "Struct" /\ Len(t.fields) >= 2
    \/ t.kind \in {"TransparentWrapper", "Enumeration", "NullableUnwrapped"}
    \/ t.kind \in {"NonRecursive", "Recursive"} /\ t.tags # <<>>

\* C15. Derivation coherence: every emitted type has Clone, PartialEq and
\* PartialOrd; it has Copy iff it is pointer-free, Default iff it is
\* enumeration-free, and each of Eq, Ord and Hash iff it is float-free.
C15_DerivationCoherence ==
    \A ki \in Processed :
        LET types == TypesOf(ki[1])
            a == ArchOf(ki[1])
            t == types[sorted_ids(types)[ki[2]]]
        IN IsDeclared(t) =>
            /\ \A trait \in {"Clone", "PartialEq", "PartialOrd"} : Provides(a, t.name, trait)
            /\ Provides(a, t.name, "Copy") <=> ~has_pointer(t, types)
            /\ Provides(a, t.name, "Default") <=> ~has_enumeration(t, types)
            /\ \A trait \in {"Eq", "Ord", "Hash"} :
                    Provides(a, t.name, trait) <=> ~has_float(t, types)

\* C16. For a NullableUnwrapped union the enumeration variant_<Name> gives
\* ordinal 0 to the lexicographically smaller of the two tag names and 1 to
\* the other, whichever of them is the null tag and whatever
\* null_represents_first_tag says; variant() answers the null tag for the null
\* pointer and the non-null tag otherwise.
C16_NullableDiscriminantOrder ==
    \A ki \in Processed :
        LET types == TypesOf(ki[1])
            a == ArchOf(ki[1])
            t == types[sorted_ids(types)[ki[2]]]
            enum == <<"variant_">> \o t.name
            null_is_smaller == StrLess(t.null_tag, t.non_null_tag)
            ordinal(tag) == IF (tag = t.null_tag) = null_is_smaller THEN "0" ELSE "1"
            line(tag) == <<INDENT>> \o tag \o <<" = ", ordinal(tag), ",\n">>
        IN t.kind = "NullableUnwrapped" =>
            /\ \E e \in TypeDecls(a, enum) :
                    /\ HasRun(e.body, <<")]\npub enum ">> \o enum \o <<" {\n">>
                                        \o (IF null_is_smaller
                                            THEN line(t.null_tag) \o line(t.non_null_tag)
                                            ELSE line(t.non_null_tag) \o line(t.null_tag))
                                        \o <<"}\n\n">>)
            /\ \E e \in EntriesOn(a) :
                    /\ e.scope = <<"impl ">> \o t.name
                    /\ HasRun(e.body,
                              <<"\n    pub fn variant(&self) -> ">> \o enum
                                  \o <<" {\n        if self.pointer.is_null() {\n            ">>
                                  \o enum \o <<"::">> \o t.null_tag
                                  \o <<"\n        } else {\n            ">>
                                  \o enum \o <<"::">> \o t.non_null_tag
                                  \o <<"\n        }\n    }">>)

\* Output holding a union whose null tag is the greater name (Nil after Cons)
\* and one whose null tag is the smaller (Empty before Full).
C16_Witness ==
    /\ pc = "done"
    /\ \E k \in 1..Len(inputs) :
        \E i, j \in 1..Len(TypesOf(k)) :
            /\ TypesOf(k)[i].kind = "NullableUnwrapped"
            /\ TypesOf(k)[j].kind = "NullableUnwrapped"
            /\ StrLess(TypesOf(k)[i].null_tag, TypesOf(k)[i].non_null_tag)
            /\ StrLess(TypesOf(k)[j].non_null_tag, TypesOf(k)[j].null_tag)
            /\ TypesOf(k)[i].null_represents_first_tag
            /\ ~TypesOf(k)[j].null_represents_first_tag

\* C17. Struct emitter: the step that processes a Struct of no field or of one
\* field leaves the store as it was; the step that processes a Struct of two
\* or more fields adds one top-level declaration and nothing else, with the
\* fields in declared order and a Recursive field typed *mut <target>.
C17_Step ==
    LET types == TypesOf(archIdx)
        a == ArchOf(archIdx)
        t == types[sorted_ids(types)[idIdx]]
        line(i) == <<INDENT, "pub ">> \o t.fields[i].label \o <<": ">>
                      \o (IF t.fields[i].recursive THEN <<"*mut ">> ELSE <<>>)
                      \o type_name(t.fields[i].id, types) \o <<",\n">>
        wanted == <<"\n#[repr(C)]\npub struct ">> \o t.name \o <<" {\n">>
                      \o Flatten([i \in 1..Len(t.fields) |-> line(i)]) \o <<"}">>
    IN (InLoop /\ t.kind = "Struct" /\ idIdx' # idIdx) =>
            IF Len(t.fields) <= 1 THEN impls' = impls
            ELSE \E s \in 1..Len(impls') :
                    \E b \in 1..Len(impls'[s].decls) :
                        LET body == impls'[s].decls[b].body
                        IN /\ impls'[s].scope = <<>>
                           /\ HasRun(body, wanted)
                           /\ impls' = add_decl(impls, <<>>, a, body)

C17_StructFrame == [][C17_Step]_vars

\* Whether the text of the entry mentions the type by name.
Mentions(e, name) == name[1] \in Range(e.body) \cup Range(e.scope)

\* C18. No declaration refers by name to a Struct of fewer than two fields,
\* and in the output every type a declaration of an architecture refers to by
\* name is declared for that architecture.
C18_NoReferenceToCollapsedStruct ==
    \A k \in 1..Len(inputs) :
        \A i \in 1..Len(TypesOf(k)) :
            LET t == TypesOf(k)[i]
                mentioned == \E e \in EntriesOn(ArchOf(k)) : Mentions(e, t.name)
            IN /\ (t.kind = "Struct" /\ Len(t.fields) < 2) => ~mentioned
               /\ (pc = "done" /\ t.name # <<>> /\ mentioned) =>
                        TypeDecls(ArchOf(k), t.name) # {}

\* C19. The declaration emitted for a TransparentWrapper derives Debug,
\* whether or not the wrapped content contains an enumeration.
C19_WrapperDerivesDebug ==
    \A ki \in Processed :
        LET types == TypesOf(ki[1])
            a == ArchOf(ki[1])
            t == types[sorted_ids(types)[ki[2]]]
        IN t.kind = "TransparentWrapper" =>
            /\ TypeDecls(a, t.name) # {}
            /\ \A e \in TypeDecls(a, t.name) : "Debug, " \in Range(e.body)

\* The lines `Tag = ordinal,` of an enum whose tags are numbered 0, 1, ... in
\* the order of the list.
OrdinalLines(tag_names) ==
    Flatten([i \in 1..Len(tag_names) |->
                <<INDENT>> \o tag_names[i] \o <<" = ", ToString(i - 1), ",\n">>])

\* Whether the output for architecture a declares `pub enum name` with
\* exactly the given tags, carrying the ordinals 0..N-1 in that order.
EnumWithOrdinals(a, name, tag_names) ==
    \E e \in TypeDecls(a, name) :
        HasRun(e.body, <<")]\npub enum ">> \o name \o <<" {\n">>
                            \o OrdinalLines(tag_names) \o <<"}\n\n">>)

TagNames(t) == [i \in 1..Len(t.tags) |-> t.tags[i].tag]

\* C20. An Enumeration of one tag is emitted as the unit struct
\* `struct Name();` and never as an enum; an Enumeration of N >= 2 tags is
\* emitted as an enum whose tags carry the ordinals 0..N-1 in the order of
\* the tag list; the enumeration variant_<Name> of a NonRecursive or
\* Recursive union numbers the union's tags in the order of its tag list.
C20_EnumerationEmitter ==
    \A ki \in Processed :
        LET types == TypesOf(ki[1])
            a == ArchOf(ki[1])
            t == types[sorted_ids(types)[ki[2]]]
        IN /\ (t.kind = "Enumeration" /\ Len(t.tags) = 1) =>
                /\ \E e \in TypeDecls(a, t.name) :
                        HasRun(e.body, <<"\nstruct ">> \o t.name \o <<"();">>)
                /\ \A e \in EntriesOn(a) :
                        ~HasRun(e.body, <<")]\npub enum ">> \o t.name)
           /\ (t.kind = "Enumeration" /\ Len(t.tags) >= 2) =>
                EnumWithOrdinals(a, t.name, TagNames(t))
           /\ (t.kind \in {"NonRecursive", "Recursive"} /\ t.tags # <<>>) =>
                EnumWithOrdinals(a, <<"variant_">> \o t.name, TagNames(t))

\* emit has finished for a registry holding an enumeration of one tag, an
\* enumeration of three, a non-recursive union and a recursive union.
C20_Witness ==
    /\ pc = "done"
    /\ \A kind \in {"Enumeration", "NonRecursive", "Recursive"} :
            \E ki \in Processed :
                LET t == TypesOf(ki[1])[ki[2]]
                IN t.kind = kind /\ Len(t.tags) >= 2
    /\ \E ki \in Processed :
            LET t == TypesOf(ki[1])[ki[2]]
            IN t.kind = "Enumeration" /\ Len(t.tags) = 1

\* C21. The constant of a tag without payload is all-zero bytes except for
\* the discriminant byte at discriminant_offset, and variant() of the
\* constant is the tag's ordinal, for NonRecursive and Recursive unions alike.
C21_TagConstant ==
    call.op = "const" =>
        /\ \A i \in 1..Len(call.ret) :
                call.ret[i] = IF i = SOffset + 1 THEN call.d ELSE 0
        /\ variant(val) = call.d

\* C22. Dropping a value runs the destructor of the payload of the tag it
\* was built with, once, when that payload is pointer-bearing, and of no
\* other slot; a payload that into_ has taken out of its cell is left to its
\* new owner, the destructor does not run on the slot it was moved out of.
C22_ManualDropConsistency ==
    /\ call.op = "drop" =>
            call.drops = IF IsManuallyDrop(val.built) THEN <<val.built>> ELSE <<>>
    /\ call.op = "into" => call.drops = <<>>

\* C23. Clone of the nullable-unwrapped type allocates nothing and copies no
\* payload: the clone holds the pointer of the original, nothing else of the
\* heap changes, and the stored reference count goes up by exactly one when
\* the pointer is not null and the storage is not read-only, and is left as
\* it was otherwise.
C23_Step ==
    \A n \in 1..MaxHandles :
        (storage # "none" /\ handles[n] = "unused" /\ handles'[n] = "live") =>
            \E h \in Live :
                /\ heap'.pointer[n] = heap.pointer[h]
                /\ heap'.allocs = heap.allocs
                /\ heap' = [heap EXCEPT !.pointer[n] = heap.pointer[h]]
                /\ storage' = storage
                /\ rc' = IF heap.pointer[h] # 0 /\ storage # "readonly" THEN rc + 1 ELSE rc

C23_CloneIsShallow == [][C23_Step]_vars

\* A reference-counted value and its clone: two live handles, one pointer.
C23_Witness ==
    /\ storage = "rc"
    /\ rc = 2
    /\ heap.allocs = 1
    /\ \E h, n \in Live : h # n /\ heap.pointer[h] = heap.pointer[n] /\ heap.pointer[h] # 0

\* C24. Allocation symmetry: the allocation is of max(align_of Self,
\* align_of Storage) + size_of payload bytes, and Drop hands roc_dealloc the
\* pointer roc_alloc returned to the constructor, with the alignment the
\* constructor asked roc_alloc for.
C24_AllocationSymmetry ==
    /\ heap.allocs > 0 =>
            heap.alloc_size
                = Max2(SelfAlign(heap.arch), StorageAlign(heap.arch)) + heap.size
    /\ (heap.allocs > 0 /\ deallocs > 0) =>
            /\ heap.dealloc_ptr = heap.alloc_ptr
            /\ heap.dealloc_align = heap.alloc_align

\* C25. Payload placement: the constructor puts the payload at a multiple of
\* the payload's alignment; the Storage cell it writes lies inside the
\* allocation and ends where the payload starts; storage() of the value
\* reads that cell.
C25_PayloadPlacement ==
    heap.allocs > 0 =>
        /\ heap.payload_ptr % heap.align = 0
        /\ heap.alloc_ptr <= heap.storage_ptr
        /\ heap.storage_ptr + StorageSize(heap.arch) <= heap.alloc_ptr + heap.alloc_size
        /\ heap.storage_ptr + StorageSize(heap.arch) = heap.payload_ptr
        /\ storage_cell(heap.pointer[1], heap.arch) = heap.storage_ptr

\* C26. as_T(&T(x)) yields references to x inside the value, leaves every
\* byte of the value as it was, does not take the payload out of its
\* ManuallyDrop cell and does not run the payload's destructor.
C26_BorrowIsReadOnly ==
    call.op = "as" =>
        /\ call.ret = call.args
        /\ call.refers = "value"
        /\ val = call.before
        /\ ~call.taken
        /\ call.drops = <<>>

\* The pieces of buf that open the scope, and those that close a scope.
Opens(chunks, scope) ==
    {i \in 1..Len(chunks) :
        chunks[i].kind = "open" /\ chunks[i].text = <<"\n">> \o scope \o <<" {">>}

Closes(chunks) == {i \in 1..Len(chunks) : chunks[i].kind = "close"}

\* Every named scope of the store is opened once, and closed before another
\* scope is opened; nothing else is opened.
ScopesOnce(chunks, m) ==
    LET named == {s \in 1..Len(m) : m[s].scope # <<>>}
        opened == {i \in 1..Len(chunks) : chunks[i].kind = "open"}
    IN /\ \A s \in named : Cardinality(Opens(chunks, m[s].scope)) = 1
       /\ Cardinality(opened) = Cardinality(named)
       /\ Cardinality(Closes(chunks)) = Cardinality(named)
       /\ \A i \in opened :
            \E j \in Closes(chunks) :
                /\ i < j
                /\ \A k \in (i + 1)..(j - 1) : chunks[k].kind \notin {"open", "close"}

\* C27. The store has one entry per scope and, within a scope, one entry
\* per body text.  A call of add_type appends its architecture to the list
\* of exactly the (scope, body) entries it adds, once per add, and leaves
\* every other architecture list as it was: the same body under another
\* scope is another entry with a list of its own.  Each named scope is
\* opened and closed exactly once in the output.
C27_Step ==
    /\ NoRepeat(Scopes(impls'))
    /\ \A s \in 1..Len(impls') : NoRepeat(Bodies(impls'[s]))
    /\ InLoop =>
        LET r == add_type(ArchOf(archIdx), sorted_ids(TypesOf(archIdx))[idIdx],
                          TypesOf(archIdx))
        IN \A s \in 1..Len(impls') :
            \A b \in 1..Len(impls'[s].decls) :
                LET e == impls'[s].decls[b]
                    calls == {i \in 1..Len(r.decls) :
                                /\ r.decls[i].scope = impls'[s].scope
                                /\ r.decls[i].body = e.body}
                    old == IF s <= Len(impls) /\ b <= Len(impls[s].decls)
                           THEN impls[s].decls[b].archs
                           ELSE <<>>
                IN e.archs = old \o [i \in 1..Cardinality(calls) |-> ArchOf(archIdx)]
    /\ pc' = "done" => ScopesOnce(buf', impls')

C27_PerScopeDeduplication == [][C27_Step]_vars

\* The output of a run on two architectures in which the same body text lies
\* under two scopes, and a scope holds two bodies.
C27_Witness ==
    /\ pc = "done"
    /\ Len(inputs) = 2
    /\ \E s, t \in 1..Len(impls) :
            /\ s # t
            /\ impls[s].scope # <<>>
            /\ impls[t].scope # <<>>
            /\ Len(impls[s].decls) >= 2
            /\ \E b \in 1..Len(impls[s].decls), c \in 1..Len(impls[t].decls) :
                    /\ impls[s].decls[b].body = impls[t].decls[c].body
                    /\ Len(impls[s].decls[b].archs) = 2
                    /\ Len(impls[t].decls[c].archs) = 2
    /\ Cardinality(Closes(buf)) >= 2

\* Whether the variant() and the set_discriminant emitted for the union read
\* and write the carrier self.<path>.
CarrierIs(a, name, path) ==
    \E e, g \in {x \in EntriesOn(a) : x.scope = <<"impl ">> \o name} :
        /\ HasRun(e.body, <<">((self.">> \o path \o <<" as u8) & ">>)
        /\ HasRun(g.body, path \o <<" as usize) & (!">>)
        /\ HasRun(g.body, path \o <<" = tagged as *mut Self;\n        }\n    }">>)

\* The labels of the Recursive fields of the registry's records.
RecursiveLabels(types) ==
    UNION {{types[i].fields[f].label :
                f \in {f \in 1..Len(types[i].fields) : types[i].fields[f].recursive}} :
            i \in 1..Len(types)}

\* C28. For every non-empty Recursive union that was emitted, the carrier
\* variant() and set_discriminant use is <TagName>.<FieldLabel>, a tag of
\* the union and the label of a Recursive field; when some tag's payload is a
\* record with a Recursive field, it is the first such field of the first
\* such tag.
C28_CarrierWellFormed ==
    \A ki \in Processed :
        LET types == TypesOf(ki[1])
            a == ArchOf(ki[1])
            t == types[sorted_ids(types)[ki[2]]]
            has(i) == /\ t.tags[i].payload # 0
                      /\ FirstRecursiveField(types[t.tags[i].payload]) # 0
        IN (t.kind = "Recursive" /\ t.tags # <<>>) =>
            /\ \E i \in 1..Len(t.tags) :
                    \E label \in RecursiveLabels(types) :
                        CarrierIs(a, t.name, t.tags[i].tag \o <<".">> \o label)
            /\ \A i \in 1..Len(t.tags) :
                    (has(i) /\ \A j \in 1..(i - 1) : ~has(j)) =>
                        LET payload == types[t.tags[i].payload]
                        IN CarrierIs(a, t.name,
                                     t.tags[i].tag \o <<".">>
                                        \o payload.fields[FirstRecursiveField(payload)].label)

====
